---- MODULE Spec2Model ----
(***************************************************************************)
(* FLEX-FORM (Sonnil/Gemba): the CSV import scripts                        *)
(* (scripts/import-data.js, scripts/simple-import.js) and the user portal  *)
(* (FlexFormUser) as state machines, with the importer's pure helpers      *)
(* (parseDate, extractDepartment, classifyRecord, simpleHash, ...) as       *)
(* operators over strings.  A JavaScript string is a sequence of           *)
(* one-character strings (ASCII 32..126), so that includes(), trim(),      *)
(* toUpperCase(), JSON.stringify() and base64 are computed, not assumed.   *)
(***************************************************************************)
EXTENDS Integers, Sequences, FiniteSets, TLC

(***************************************************************************)
(* Bounds of the model (not program constants).                            *)
(***************************************************************************)
MaxLocTokens == 2

MaxRows == 3

MaxDay == 32

MaxWarnings == 1

MaxSubmits == 1

MaxPdfRecords == 5

\* the calls of importData a caller of the library makes after the first
MaxReruns == 1

\* the times the user of the portal fills the form
MaxFills == 1

\* the writes of the draft by the two tabs together
MaxDraftWrites == 4

(***************************************************************************)
(* Characters and strings.                                                 *)
(***************************************************************************)
Ascii ==
  <<" ","!","\"","#","$","%","&","'","(",")","*","+",",","-",".","/",
    "0","1","2","3","4","5","6","7","8","9",":",";","<","=",">","?","@",
    "A","B","C","D","E","F","G","H","I","J","K","L","M","N","O","P","Q","R","S",
    "T","U","V","W","X","Y","Z","[","\\","]","^","_","grave",
    "a","b","c","d","e","f","g","h","i","j","k","l","m","n","o","p","q","r","s",
    "t","u","v","w","x","y","z","{","|","}","~">>

\* ("grave" stands for the character of code 96, which a TLA+ string cannot hold)
CharSet == {Ascii[i] : i \in 1..Len(Ascii)}

\* the UTF-16 / UTF-8 code of an ASCII character
OrdTable == [c \in CharSet |-> 31 + (CHOOSE i \in 1..Len(Ascii) : Ascii[i] = c)]

Ord(c) == OrdTable[c]

Chr(n) == Ascii[n - 31]

IsDigit(c) == Ord(c) >= 48 /\ Ord(c) <= 57

IsUpperLetter(c) == Ord(c) >= 65 /\ Ord(c) <= 90

IsLowerLetter(c) == Ord(c) >= 97 /\ Ord(c) <= 122

DigitVal(c) == Ord(c) - 48

Min(a, b) == IF a <= b THEN a ELSE b

\* String.prototype.includes
Includes(s, sub) ==
  \E i \in 0..(Len(s) - Len(sub)) : SubSeq(s, i + 1, i + Len(sub)) = sub

\* String.prototype.toUpperCase / toLowerCase on ASCII
toUpperCase(s) == [i \in 1..Len(s) |-> IF IsLowerLetter(s[i]) THEN Chr(Ord(s[i]) - 32) ELSE s[i]]

toLowerCase(s) == [i \in 1..Len(s) |-> IF IsUpperLetter(s[i]) THEN Chr(Ord(s[i]) + 32) ELSE s[i]]

\* String.prototype.trim (the only white space of the alphabet is the blank)
trim(s) ==
  LET nonblank == {i \in 1..Len(s) : s[i] # " "}
  IN  IF nonblank = {} THEN <<>>
      ELSE SubSeq(s, CHOOSE i \in nonblank : \A j \in nonblank : i <= j,
                     CHOOSE i \in nonblank : \A j \in nonblank : i >= j)

\* String.prototype.substring(0, n)
substring0(s, n) == SubSeq(s, 1, Min(n, Len(s)))

\* comparison of two strings by code units, as Array.prototype.sort does by default
RECURSIVE StrLess(_, _)
StrLess(a, b) ==
  IF b = <<>> THEN FALSE
  ELSE IF a = <<>> THEN TRUE
  ELSE IF Head(a) = Head(b) THEN StrLess(Tail(a), Tail(b))
  ELSE Ord(Head(a)) < Ord(Head(b))

\* two decimal digits of a number below 100
TwoDigits(n) == <<Chr(48 + (n \div 10)), Chr(48 + (n % 10))>>

(***************************************************************************)
(* base64, as Buffer.from(s).toString('base64') and btoa(s) compute it.    *)
(***************************************************************************)
B64 ==
  <<"A","B","C","D","E","F","G","H","I","J","K","L","M","N","O","P","Q","R","S",
    "T","U","V","W","X","Y","Z",
    "a","b","c","d","e","f","g","h","i","j","k","l","m","n","o","p","q","r","s",
    "t","u","v","w","x","y","z",
    "0","1","2","3","4","5","6","7","8","9","+","/">>

Base64(s) ==
  LET n == Len(s)
      byte(i) == IF i <= n THEN Ord(s[i]) ELSE 0
      \* the k-th output character of the g-th group of three bytes
      out(g, k) ==
        LET v == byte(3 * g - 2) * 65536 + byte(3 * g - 1) * 256 + byte(3 * g)
            have == n - 3 * (g - 1)
        IN  CASE k = 1 -> B64[(v \div 262144) + 1]
              [] k = 2 -> B64[((v \div 4096) % 64) + 1]
              [] k = 3 -> IF have >= 2 THEN B64[((v \div 64) % 64) + 1] ELSE "="
              [] k = 4 -> IF have >= 3 THEN B64[(v % 64) + 1] ELSE "="
  IN  [i \in 1..(4 * ((n + 2) \div 3)) |-> out(((i - 1) \div 4) + 1, ((i - 1) % 4) + 1)]

(***************************************************************************)
(* JavaScript values and objects.  A value is tagged; an object is the     *)
(* sequence of its own properties in insertion order.                      *)
(***************************************************************************)
Str(s) == [t |-> "string", s |-> s]

Num(digits) == [t |-> "number", s |-> digits]

Undefined == [t |-> "undefined", s |-> <<>>]

Null == [t |-> "null", s |-> <<>>]

\* the result of a call that raised an exception
Thrown == [t |-> "throw", s |-> <<>>]

IsStr(v) == v.t = "string"

\* ToBoolean
Truthy(v) ==
  CASE v.t = "string" -> v.s # <<>>
    [] v.t = "number" -> v.s # <<"0">>
    [] OTHER -> FALSE

Keys(o) == [i \in 1..Len(o) |-> o[i].k]

Has(o, k) == \E i \in 1..Len(o) : o[i].k = k

\* o[k], undefined when o has no such property
Get(o, k) == IF Has(o, k) THEN o[CHOOSE i \in 1..Len(o) : o[i].k = k].v ELSE Undefined

\* o[k] = v: an existing property keeps its place, a new one goes last
Set(o, k, v) ==
  IF Has(o, k) THEN [i \in 1..Len(o) |-> IF o[i].k = k THEN [k |-> k, v |-> v] ELSE o[i]]
  ELSE Append(o, [k |-> k, v |-> v])

\* delete o[k]
Delete(o, k) == SelectSeq(o, LAMBDA p : p.k # k)

\* { ...a, ...b }
RECURSIVE Spread(_, _)
Spread(a, b) == IF b = <<>> THEN a ELSE Spread(Set(a, Head(b).k, Head(b).v), Tail(b))

\* the characters of the property names the programs use
KeyChars ==
  [k \in {"original_id", "short_description", "contact_organizer", "location",
          "event_occurred", "event_detected", "expected_results", "process_confidence",
          "gemba_outcome", "contact_organizer_encrypted", "contact_organizer_hash",
          "department", "security_classification", "data_hash", "import_batch",
          "audit_log", "request_id", "process_effectiveness", "outcome",
          "requester_email", "request_title", "priority", "description", "due_date",
          "created_by", "source_file", "created_at", "email", "undefined",
          "id", "a", "b", "email_hash"} |->
     CASE k = "original_id" -> <<"o","r","i","g","i","n","a","l","_","i","d">>
       [] k = "short_description" -> <<"s","h","o","r","t","_","d","e","s","c","r","i","p","t","i","o","n">>
       [] k = "contact_organizer" -> <<"c","o","n","t","a","c","t","_","o","r","g","a","n","i","z","e","r">>
       [] k = "location" -> <<"l","o","c","a","t","i","o","n">>
       [] k = "event_occurred" -> <<"e","v","e","n","t","_","o","c","c","u","r","r","e","d">>
       [] k = "event_detected" -> <<"e","v","e","n","t","_","d","e","t","e","c","t","e","d">>
       [] k = "expected_results" -> <<"e","x","p","e","c","t","e","d","_","r","e","s","u","l","t","s">>
       [] k = "process_confidence" -> <<"p","r","o","c","e","s","s","_","c","o","n","f","i","d","e","n","c","e">>
       [] k = "gemba_outcome" -> <<"g","e","m","b","a","_","o","u","t","c","o","m","e">>
       [] k = "contact_organizer_encrypted" -> <<"c","o","n","t","a","c","t","_","o","r","g","a","n","i","z","e","r","_","e","n","c","r","y","p","t","e","d">>
       [] k = "contact_organizer_hash" -> <<"c","o","n","t","a","c","t","_","o","r","g","a","n","i","z","e","r","_","h","a","s","h">>
       [] k = "department" -> <<"d","e","p","a","r","t","m","e","n","t">>
       [] k = "security_classification" -> <<"s","e","c","u","r","i","t","y","_","c","l","a","s","s","i","f","i","c","a","t","i","o","n">>
       [] k = "data_hash" -> <<"d","a","t","a","_","h","a","s","h">>
       [] k = "import_batch" -> <<"i","m","p","o","r","t","_","b","a","t","c","h">>
       [] k = "audit_log" -> <<"a","u","d","i","t","_","l","o","g">>
       [] k = "request_id" -> <<"r","e","q","u","e","s","t","_","i","d">>
       [] k = "process_effectiveness" -> <<"p","r","o","c","e","s","s","_","e","f","f","e","c","t","i","v","e","n","e","s","s">>
       [] k = "outcome" -> <<"o","u","t","c","o","m","e">>
       [] k = "requester_email" -> <<"r","e","q","u","e","s","t","e","r","_","e","m","a","i","l">>
       [] k = "request_title" -> <<"r","e","q","u","e","s","t","_","t","i","t","l","e">>
       [] k = "priority" -> <<"p","r","i","o","r","i","t","y">>
       [] k = "description" -> <<"d","e","s","c","r","i","p","t","i","o","n">>
       [] k = "due_date" -> <<"d","u","e","_","d","a","t","e">>
       [] k = "created_by" -> <<"c","r","e","a","t","e","d","_","b","y">>
       [] k = "source_file" -> <<"s","o","u","r","c","e","_","f","i","l","e">>
       [] k = "created_at" -> <<"c","r","e","a","t","e","d","_","a","t">>
       [] k = "email" -> <<"e","m","a","i","l">>
       [] k = "id" -> <<"i","d">>
       [] k = "a" -> <<"a">>
       [] k = "b" -> <<"b">>
       [] k = "email_hash" -> <<"e","m","a","i","l","_","h","a","s","h">>
       [] k = "undefined" -> <<"u","n","d","e","f","i","n","e","d">>]

\* Array.prototype.sort() of property names: insertion sort by code units
RECURSIVE InsertKey(_, _)
InsertKey(sorted, k) ==
  IF sorted = <<>> THEN <<k>>
  ELSE IF StrLess(KeyChars[k], KeyChars[Head(sorted)]) THEN <<k>> \o sorted
  ELSE <<Head(sorted)>> \o InsertKey(Tail(sorted), k)

RECURSIVE SortKeys(_)
SortKeys(keys) ==
  IF keys = <<>> THEN <<>> ELSE InsertKey(SortKeys(SubSeq(keys, 1, Len(keys) - 1)), keys[Len(keys)])

\* JSON.stringify of a string: quotes and backslashes are escaped
RECURSIVE JsonEscape(_)
JsonEscape(s) ==
  IF s = <<>> THEN <<>>
  ELSE (IF Head(s) \in {"\"", "\\"} THEN <<"\\", Head(s)>> ELSE <<Head(s)>>) \o JsonEscape(Tail(s))

JsonValue(v) ==
  CASE v.t = "string" -> <<"\"">> \o JsonEscape(v.s) \o <<"\"">>
    [] v.t = "number" -> v.s
    [] OTHER          -> <<"n","u","l","l">>

\* the members "k":v of o for the property names of list, in that order; a
\* property that is missing or undefined is left out
RECURSIVE JsonMembers(_, _, _)
JsonMembers(o, list, first) ==
  IF list = <<>> THEN <<>>
  ELSE LET k == Head(list)
           v == Get(o, k)
       IN  IF v.t = "undefined" THEN JsonMembers(o, Tail(list), first)
           ELSE (IF first THEN <<>> ELSE <<",">>)
                \o <<"\"">> \o JsonEscape(KeyChars[k]) \o <<"\"", ":">> \o JsonValue(v)
                \o JsonMembers(o, Tail(list), FALSE)

\* JSON.stringify(o, list): list is the replacer array (the property list)
JSONstringifyList(o, list) == <<"{">> \o JsonMembers(o, list, TRUE) \o <<"}">>

\* JSON.stringify(o)
JSONstringify(o) == JSONstringifyList(o, Keys(o))

(***************************************************************************)
(* Bytes: TextEncoder / TextDecoder, btoa(String.fromCharCode(...bytes))   *)
(* and atob, and the Web Crypto calls of SecureKeyManager.                 *)
(***************************************************************************)
RECURSIVE SumSeq(_)
SumSeq(numbers) == IF numbers = <<>> THEN 0 ELSE Head(numbers) + SumSeq(Tail(numbers))

\* new TextEncoder().encode(s), for the characters of the model
TextEncode(s) == [k \in 1..Len(s) |-> Ord(s[k])]

\* new TextDecoder().decode(bytes); a byte outside the characters of the model
\* is shown as ?
TextDecode(bytes) ==
  [k \in 1..Len(bytes) |-> IF bytes[k] >= 32 /\ bytes[k] <= 126 THEN Chr(bytes[k]) ELSE "?"]

\* btoa(String.fromCharCode(...bytes))
btoaBytes(bytes) ==
  LET byte(k) == IF k <= Len(bytes) THEN bytes[k] ELSE 0
      char(v, have, k) ==
        CASE k = 1 -> B64[(v \div 262144) + 1]
          [] k = 2 -> B64[((v \div 4096) % 64) + 1]
          [] k = 3 -> IF have >= 2 THEN B64[((v \div 64) % 64) + 1] ELSE "="
          [] k = 4 -> IF have >= 3 THEN B64[(v % 64) + 1] ELSE "="
      out(g, k) ==
        char(byte(3 * g - 2) * 65536 + byte(3 * g - 1) * 256 + byte(3 * g),
             Len(bytes) - 3 * (g - 1), k)
  IN  [k \in 1..(4 * ((Len(bytes) + 2) \div 3)) |->
         out(((k - 1) \div 4) + 1, ((k - 1) % 4) + 1)]

\* the value of each character of the base64 alphabet
B64Table == [c \in { B64[k] : k \in 1..64 } |-> (CHOOSE k \in 1..64 : B64[k] = c) - 1]

\* atob(text).split('').map(char => char.charCodeAt(0)): ok is FALSE when atob
\* throws InvalidCharacterError
atobBytes(text) ==
  LET padding(n) == IF n % 4 = 0 /\ n >= 2 /\ text[n] = "="
                    THEN (IF text[n - 1] = "=" THEN 2 ELSE 1) ELSE 0
      part(v, r) ==
        CASE r = 0 -> v \div 65536
          [] r = 1 -> (v \div 256) % 256
          [] OTHER -> v % 256
      decode(body) ==
        LET sextet(k) == IF k <= Len(body) THEN B64Table[body[k]] ELSE 0
            group(g) == sextet(4 * g + 1) * 262144 + sextet(4 * g + 2) * 4096
                        + sextet(4 * g + 3) * 64 + sextet(4 * g + 4)
        IN  IF Len(body) % 4 = 1 \/ \E k \in 1..Len(body) : body[k] \notin DOMAIN B64Table
            THEN [ok |-> FALSE, bytes |-> <<>>]
            ELSE [ok |-> TRUE,
                  bytes |-> [b \in 1..((Len(body) * 6) \div 8) |->
                               part(group((b - 1) \div 3), (b - 1) % 3)]]
  IN  decode(SubSeq(text, 1, Len(text) - padding(Len(text))))

\* crypto.subtle.importKey + deriveKey: PBKDF2 with the fixed salt and iteration
\* count is a function of the password bytes alone; the derived key is the term
\* of that function, so that distinct passwords give distinct keys
deriveKey(passwordBytes) == [name |-> "AES-GCM", length |-> 256, password |-> passwordBytes]

NoKey == [name |-> "null", length |-> 0, password |-> <<>>]

\* the length of the authentication tag of AES-GCM
TagBytes == 16

\* the key stream byte of a position, and the tag: a stand-in for AES-GCM that
\* keeps its interface (|ciphertext| = |data| + 16, the tag depends on the key,
\* the iv and every byte of the data)
KeyStream(key, iv, k) == (SumSeq(key.password) + SumSeq(iv) + 7 * k) % 256

RECURSIVE Weighted(_, _)
Weighted(numbers, k) ==
  IF numbers = <<>> THEN 0 ELSE k * Head(numbers) + Weighted(Tail(numbers), k + 1)

GcmTag(key, iv, data) ==
  [k \in 1..TagBytes |->
     CASE k <= 8 -> IF k <= Len(key.password) THEN key.password[k] ELSE 0
       [] k = 9 -> Len(key.password) % 256
       [] k = 10 -> SumSeq(data) % 256
       [] k = 11 -> Weighted(data, 1) % 256
       [] k = 12 -> Len(data) % 256
       [] k = 13 -> SumSeq(iv) % 256
       [] k = 14 -> Weighted(iv, 1) % 256
       [] k = 15 -> Len(iv) % 256
       [] OTHER -> 71]

\* crypto.subtle.encrypt({ name: 'AES-GCM', iv }, key, data)
AesGcmEncrypt(key, iv, data) ==
  [k \in 1..Len(data) |-> (data[k] + KeyStream(key, iv, k)) % 256] \o GcmTag(key, iv, data)

AesGcmDecryptUnchecked(key, iv, bytes) ==
  [ok |-> TRUE,
   data |-> [k \in 1..(Len(bytes) - Min(TagBytes, Len(bytes))) |->
               (bytes[k] + 256 - KeyStream(key, iv, k)) % 256]]

\* crypto.subtle.decrypt: ok is FALSE when it rejects with OperationError (the
\* tag does not fit the key, the iv and the ciphertext)
AesGcmDecrypt(key, iv, bytes) ==
  IF Len(bytes) < TagBytes \/ iv = <<>> THEN [ok |-> FALSE, data |-> <<>>]
  ELSE LET verified(tag, data) ==
             IF tag = GcmTag(key, iv, data) THEN [ok |-> TRUE, data |-> data]
             ELSE [ok |-> FALSE, data |-> <<>>]
       IN  verified(SubSeq(bytes, Len(bytes) - TagBytes + 1, Len(bytes)),
                    [k \in 1..(Len(bytes) - TagBytes) |->
                       (bytes[k] + 256 - KeyStream(key, iv, k)) % 256])

(***************************************************************************)
(* Dates: new Date(s) and toISOString() of the JavaScript engine of Node   *)
(* (V8), on the strings the importer hands it from the modelled inputs:    *)
(* a date-only ISO string YYYY-MM-DD (month 01..12, day 01..31) is that    *)
(* day at 00:00 UTC, a day past the end of its month running over into the *)
(* next month; a YYYY-MM-DD string with another month or day, a string     *)
(* holding the word "undefined" after the year, and a string without any   *)
(* digit are not dates.                                                    *)
(***************************************************************************)
IsLeapYear(y) == (y % 4 = 0 /\ y % 100 # 0) \/ y % 400 = 0

DaysInMonth(y, m) ==
  IF m = 2 THEN (IF IsLeapYear(y) THEN 29 ELSE 28)
  ELSE IF m \in {4, 6, 9, 11} THEN 30 ELSE 31

AllDigits(s) == \A i \in 1..Len(s) : IsDigit(s[i])

NoDigit(s) == \A i \in 1..Len(s) : ~IsDigit(s[i])

IsIsoDateShape(s) ==
  /\ Len(s) = 10
  /\ AllDigits(SubSeq(s, 1, 4)) /\ s[5] = "-"
  /\ AllDigits(SubSeq(s, 6, 7)) /\ s[8] = "-"
  /\ AllDigits(SubSeq(s, 9, 10))

InvalidDate == [valid |-> FALSE, y |-> 0, m |-> 0, d |-> 0]

\* new Date(s): the time value as a UTC calendar day, or Invalid Date
NewDate(s) ==
  IF ~IsIsoDateShape(s) THEN InvalidDate
  ELSE LET y == 1000 * DigitVal(s[1]) + 100 * DigitVal(s[2]) + 10 * DigitVal(s[3]) + DigitVal(s[4])
           m == 10 * DigitVal(s[6]) + DigitVal(s[7])
           d == 10 * DigitVal(s[9]) + DigitVal(s[10])
       IN  IF m < 1 \/ m > 12 \/ d < 1 \/ d > 31 THEN InvalidDate
           ELSE IF d <= DaysInMonth(y, m) THEN [valid |-> TRUE, y |-> y, m |-> m, d |-> d]
           ELSE [valid |-> TRUE, y |-> y, m |-> m + 1, d |-> d - DaysInMonth(y, m)]

\* date.toISOString().split('T')[0]
IsoDay(date) ==
  TwoDigits(date.y \div 100) \o TwoDigits(date.y % 100) \o <<"-">>
  \o TwoDigits(date.m) \o <<"-">> \o TwoDigits(date.d)

(***************************************************************************)
(* SecureDataImporter: the helpers of scripts/import-data.js.              *)
(***************************************************************************)
monthMapJanuary(month) == <<"0","1">>

monthMap(month) ==
  CASE month = <<"J","A","N">> -> <<"0","1">> [] month = <<"F","E","B">> -> <<"0","2">>
    [] month = <<"M","A","R">> -> <<"0","3">> [] month = <<"A","P","R">> -> <<"0","4">>
    [] month = <<"M","A","Y">> -> <<"0","5">> [] month = <<"J","U","N">> -> <<"0","6">>
    [] month = <<"J","U","L">> -> <<"0","7">> [] month = <<"A","U","G">> -> <<"0","8">>
    [] month = <<"S","E","P">> -> <<"0","9">> [] month = <<"O","C","T">> -> <<"1","0">>
    [] month = <<"N","O","V">> -> <<"1","1">> [] month = <<"D","E","C">> -> <<"1","2">>
    [] OTHER -> <<"u","n","d","e","f","i","n","e","d">>

\* /^\d{2}[A-Z]{3}\d{2}$/.test(s)
IsDDMMMYY(s) ==
  /\ Len(s) = 7
  /\ IsDigit(s[1]) /\ IsDigit(s[2])
  /\ IsUpperLetter(s[3]) /\ IsUpperLetter(s[4]) /\ IsUpperLetter(s[5])
  /\ IsDigit(s[6]) /\ IsDigit(s[7])

\* parseDate(dateString) with importStats.warnings = warnings before the call:
\* the value returned (Thrown for an exception) and warnings after it
parseDateNoWarn(dateString, warnings) ==
  IF ~Truthy(dateString) THEN [ret |-> Null, warnings |-> warnings]
  ELSE IF ~IsStr(dateString) THEN [ret |-> Thrown, warnings |-> warnings]
  ELSE IF trim(dateString.s) = <<>> THEN [ret |-> Null, warnings |-> warnings]
  ELSE LET trimmed == trim(dateString.s)
           cleanDate == IF IsDDMMMYY(trimmed)
                        THEN <<"2","0">> \o SubSeq(trimmed, 6, 7) \o <<"-">>
                             \o monthMap(SubSeq(trimmed, 3, 5)) \o <<"-">> \o SubSeq(trimmed, 1, 2)
                        ELSE trimmed
           parsedDate == NewDate(cleanDate)
       IN  IF ~parsedDate.valid THEN [ret |-> Null, warnings |-> warnings]
           ELSE [ret |-> Str(IsoDay(parsedDate)), warnings |-> warnings]

parseDate(dateString, warnings) ==
  IF ~Truthy(dateString) THEN [ret |-> Null, warnings |-> warnings]
  ELSE IF ~IsStr(dateString) THEN [ret |-> Thrown, warnings |-> warnings]
  ELSE IF trim(dateString.s) = <<>> THEN [ret |-> Null, warnings |-> warnings]
  ELSE LET trimmed == trim(dateString.s)
           cleanDate == IF IsDDMMMYY(trimmed)
                        THEN <<"2","0">> \o SubSeq(trimmed, 6, 7) \o <<"-">>
                             \o monthMap(SubSeq(trimmed, 3, 5)) \o <<"-">> \o SubSeq(trimmed, 1, 2)
                        ELSE trimmed
           parsedDate == NewDate(cleanDate)
       IN  IF ~parsedDate.valid THEN [ret |-> Null, warnings |-> warnings + 1]
           ELSE [ret |-> Str(IsoDay(parsedDate)), warnings |-> warnings]

simpleEncrypt(data) == Base64(data) \o <<"_","e","n","c","r","y","p","t","e","d">>

simpleHash(data) == substring0(Base64(data \o <<"s","a","l","t">>), 32)

\* encryptSensitiveData(record) with importStats.encryptedFields = encryptedFields
\* before the call; Buffer.from of a string never throws, so the inner catch
\* (lines 272-275) is never entered
encryptSensitiveData(record, encryptedFields) ==
  LET contact == Get(record, "contact_organizer")
  IN  IF ~Truthy(contact) THEN [ret |-> record, encryptedFields |-> encryptedFields]
      ELSE IF ~IsStr(contact) THEN [ret |-> Thrown, encryptedFields |-> encryptedFields]
      ELSE IF ~Includes(contact.s, <<"@">>) THEN [ret |-> record, encryptedFields |-> encryptedFields]
      ELSE [ret |-> Delete(Set(Set(record,
                                   "contact_organizer_encrypted", Str(simpleEncrypt(contact.s))),
                               "contact_organizer_hash", Str(simpleHash(contact.s))),
                           "contact_organizer"),
            encryptedFields |-> encryptedFields + 1]

classifyRecord(record) ==
  LET content == toLowerCase(JSONstringify(record))
  IN  IF Includes(content, <<"@">>) \/ Includes(content, <<"e","m","a","i","l">>) THEN Str(<<"i","n","t","e","r","n","a","l">>)
      ELSE IF Includes(content, <<"c","o","n","f","i","d","e","n","t","i","a","l">>) \/ Includes(content, <<"s","e","n","s","i","t","i","v","e">>)
      THEN Str(<<"c","o","n","f","i","d","e","n","t","i","a","l">>)
      ELSE Str(<<"i","n","t","e","r","n","a","l">>)

generateDataHash(record) == Str(simpleHash(JSONstringifyList(record, SortKeys(Keys(record)))))

extractDepartmentVerbatim(location) == location

extractDepartmentCaseSensitive(location) ==
  IF ~Truthy(location) THEN Str(<<"g","e","n","e","r","a","l">>)
  ELSE IF ~IsStr(location) THEN Thrown
  ELSE IF Includes(location.s, <<"N","Y","A">>) THEN Str(<<"N","Y","A">>)
  ELSE IF Includes(location.s, <<"F","O","R","B","E","S">>) THEN Str(<<"F","O","R","B","E","S">>)
  ELSE IF Includes(location.s, <<"Q","C">>) THEN Str(<<"Q","C">>)
  ELSE IF Includes(location.s, <<"M","I","C","R","O">>) THEN Str(<<"M","I","C","R","O","B","I","O","L","O","G","Y">>)
  ELSE Str(<<"g","e","n","e","r","a","l">>)

extractDepartment(location) ==
  IF ~Truthy(location) THEN Str(<<"g","e","n","e","r","a","l">>)
  ELSE IF ~IsStr(location) THEN Thrown
  ELSE LET locationUpper == toUpperCase(location.s)
       IN  IF Includes(locationUpper, <<"N","Y","A">>) THEN Str(<<"N","Y","A">>)
           ELSE IF Includes(locationUpper, <<"F","O","R","B","E","S">>) THEN Str(<<"F","O","R","B","E","S">>)
           ELSE IF Includes(locationUpper, <<"Q","C">>) THEN Str(<<"Q","C">>)
           ELSE IF Includes(locationUpper, <<"M","I","C","R","O">>) THEN Str(<<"M","I","C","R","O","B","I","O","L","O","G","Y">>)
           ELSE Str(<<"g","e","n","e","r","a","l">>)

(***************************************************************************)
(* The state.  One of the repository's programs runs in a behaviour:       *)
(*   "import-data"   scripts/import-data.js run from the command line,     *)
(*   "library"       a SecureDataImporter whose importData is called through   *)
(*                   module.exports, one call after the other              *)
(*   "module"        a SecureDataImporter used through module.exports: its *)
(*                   processRecords and uploadToDatabase called on records *)
(*                   of the caller,                                        *)
(*   "simple-import" scripts/simple-import.js,                             *)
(*   "portal"        the user portal (FlexFormUser),                       *)
(*   "api"           single calls of the importer's helpers.               *)
(***************************************************************************)
VARIABLES
  program,           \* the entry point that runs
  pc,                \* where the program is
  csvExists,         \* fs.existsSync(csvFilePath)
  hasCredentials,    \* SUPABASE_URL and SUPABASE_SERVICE_KEY are both set
  csvRows,           \* the rows csv-parser yields for the file
  connected,         \* importData: what testConnection returned ("none" before it)
  lineCount,         \* readCSVFile: rows seen so far
  records,           \* the records read (readCSVFile) or given (processRecords)
  batchSize,         \* this.batchSize
  importStats,       \* this.importStats
  i,                 \* the offset of the current batch in the running batch loop
  j,                 \* processRecords: records of the current batch already handled
  processedRecords,  \* processRecords: its output so far
  uploadedCount,     \* uploadToDatabase: uploadedCount; simple-import: imported
  store,             \* the batches handed to the store so far, with their outcome
  result,            \* what importData returned
  exitCode,          \* the code the process exited with, -1 while it runs
  apiCall,           \* "api": the helper called and its arguments
  apiRet,            \* "api": the values returned so far
  inputs,            \* portal: the values of the connection inputs (url, key, email, department)
  isConnected,       \* portal: this.isConnected
  supabase,          \* portal: this.supabase, with the outcome of its connection test
  currentUser,       \* portal: this.currentUser
  templates,         \* portal: the ids of this.templates
  currentTemplate,   \* portal: the id of this.currentTemplate
  localStorage,      \* portal: the browser's local storage
  form,              \* portal: the inputs of the rendered form, with their values
  message,           \* portal: the message shown last
  shown,             \* portal: the messages the last call of submitForm showed
  encryptionKey,     \* SecureKeyManager: this.encryptionKey
  initialized,       \* SecureKeyManager: this.initialized
  serviceKey,        \* SecureConfigLoader: this.serviceKey
  secureConfig,      \* window.FLEXFORM_SECURE_CONFIG.SERVICE_KEY_CONFIG
  cryptoWorks,       \* whether the calls of crypto.subtle.importKey / deriveKey succeed
  lastBlob,          \* the last value encryptKey returned, with what it was made from
  awaiting,          \* upload loops: the loop is suspended at the await of its request
  inFlight,          \* upload loops: the offsets of the batches requested and not yet answered
  issued,            \* upload loops: the offsets of the batches requested so far, in order
  lastCall,          \* the last call of the key manager or the loader, and its outcome
  tabs,              \* two tabs: the form and the message shown last of each browser tab
  lastWriter,        \* two tabs: the tab whose setItem ran last, 0 before any
  writes,            \* portal, two tabs: the times a draft was stored so far
  connection,        \* SharePointConnector: this.connection
  listCache,         \* SharePointConnector: the names in this.listCache
  pending,           \* SharePointConnector: the calls suspended at their await
  disconnected,      \* SharePointConnector: disconnect() returned and no connect() was called since
  reruns             \* library: the calls of importData made after the first on the instance

vars == <<program, pc, csvExists, hasCredentials, csvRows, connected, lineCount, records, batchSize,
          importStats, i, j, processedRecords, uploadedCount, store, result, exitCode,
          apiCall, apiRet, inputs, isConnected, supabase, currentUser, templates, currentTemplate,
          localStorage, form, message, shown, encryptionKey, initialized, serviceKey, secureConfig,
          cryptoWorks, lastBlob, lastCall, awaiting, inFlight, issued, tabs, lastWriter,
          writes, connection, listCache, pending, disconnected, reruns>>

uploadVars == <<awaiting, inFlight, issued>>

tabVars == <<tabs, lastWriter, writes>>

sharePointVars == <<connection, listCache, pending, disconnected>>

keyVars == <<encryptionKey, initialized, serviceKey, secureConfig, cryptoWorks, lastBlob, lastCall>>

portalVars == <<inputs, isConnected, supabase, currentUser, templates, currentTemplate, localStorage, form,
                message, shown>>

\* this.batchSize of the constructor, and the batch size of the two upload loops
DefaultBatchSize == 100

UploadBatchSize == 50

SimpleBatchSize == 50

NoResult == [status |-> "none", totalRecords |-> 0, uploadedRecords |-> 0, errors |-> 0]

ZeroStats == [totalRecords |-> 0, processedRecords |-> 0, encryptedFields |-> 0,
              errors |-> 0, warnings |-> 0]

\* Date.now() and new Date().toISOString(): the clock is one fixed instant
batchId == <<"i","m","p","o","r","t","_","1","7","5","9","5","1","6","9","4","0","0","0","0">>

auditLog ==
  <<"[","{","\"","a","c","t","i","o","n","\"",":","\"","I","M","P","O","R","T","\"",",","\"","t","i","m","e","s","t","a","m","p","\"",":","\"","2","0","2","5","-","1","0","-","0","3","T","1","8",":","4","2",":","2","0",".","0","0","0","Z","\"",",","\"","u","s","e","r","\"",":","\"","d","a","t","a","-","i","m","p","o","r","t","@","s","y","s","t","e","m","\"",",","\"","s","o","u","r","c","e","\"",":","\"","G","e","m","b","a"," ","R","e","q","u","e","s","t","s",".","c","s","v","\"",",","\"","b","a","t","c","h","\"",":","\"","i","m","p","o","r","t","_","1","7","5","9","5","1","6","9","4","0","0","0","0","\"","}","]">>

(***************************************************************************)
(* Inputs.                                                                 *)
(***************************************************************************)
Cell(header, text) == [k |-> header, v |-> Str(text)]

\* a complete row with an e-mail contact and two DDMMMYY dates
RowGood ==
  << Cell("ID", <<"1">>), Cell("Short Description", <<"S","p","i","l","l">>),
     Cell("Contact / Organizer", <<"a","@","b",".","c","o">>),
     Cell("Where (building/room #/lab)?", <<"N","Y","A"," ","B","u","i","l","d","i","n","g"," ","4">>),
     Cell("When did the event occur?", <<"0","1","O","C","T","2","5">>),
     Cell("When was the event detected?", <<"0","2","O","C","T","2","5">>),
     Cell("Expected Results", <<"o","k">>),
     Cell("Based on process conf., Gemba 100% effective", <<"Y","e","s">>),
     Cell("Outcome of Gemba", <<"d","o","n","e">>) >>

\* a row whose event date is malformed
RowBadDate ==
  << Cell("ID", <<"2">>), Cell("Short Description", <<"C","o","n","f","i","d","e","n","t","i","a","l"," ","l","e","a","k">>),
     Cell("Contact / Organizer", <<"c","@","d",".","i","o">>),
     Cell("Where (building/room #/lab)?", <<"A","n","n","e","x">>),
     Cell("When did the event occur?", <<"n","o","t","-","a","-","d","a","t","e">>),
     Cell("When was the event detected?", <<"2","0","2","5","-","1","0","-","0","2">>),
     Cell("Expected Results", <<"o","k">>),
     Cell("Based on process conf., Gemba 100% effective", <<"N","o">>),
     Cell("Outcome of Gemba", <<"o","p","e","n">>) >>

\* a row with an empty contact cell
RowNoContact ==
  << Cell("ID", <<"3">>), Cell("Short Description", <<"S","e","n","s","i","t","i","v","e"," ","a","r","e","a">>),
     Cell("Contact / Organizer", <<>>),
     Cell("Where (building/room #/lab)?", <<"q","c"," ","l","a","b">>),
     Cell("When did the event occur?", <<"3","1","D","E","C","2","4">>),
     Cell("When was the event detected?", <<>>),
     Cell("Expected Results", <<"o","k">>),
     Cell("Based on process conf., Gemba 100% effective", <<"Y","e","s">>),
     Cell("Outcome of Gemba", <<"d","o","n","e">>) >>

\* a short row: the cells from the contact on are missing
RowShort == << Cell("ID", <<"4">>), Cell("Short Description", <<"E","m","a","i","l"," ","o","u","t","a","g","e">>) >>

\* a row whose contact is a name, not an address
RowName ==
  << Cell("ID", <<"5">>), Cell("Short Description", <<"A","u","d","i","t">>),
     Cell("Contact / Organizer", <<"B","o","b">>),
     Cell("Where (building/room #/lab)?", <<"M","i","c","r","o"," ","F","o","r","b","e","s">>),
     Cell("When did the event occur?", <<"3","0","F","E","B","2","5">>),
     Cell("When was the event detected?", <<" "," ">>),
     Cell("Expected Results", <<"o","k">>),
     Cell("Based on process conf., Gemba 100% effective", <<"Y","e","s">>),
     Cell("Outcome of Gemba", <<"d","o","n","e">>) >>

\* the rows the short files are made of
RowSet == {RowGood, RowBadDate, RowNoContact}

\* the sequences over S of length 0..n
SeqsUpTo(S, n) == UNION {[1..m -> S] : m \in 0..n}

\* n copies of x
Repeat(x, n) == [m \in 1..n |-> x]

\* the files: every short file, and long ones that span several batches
CsvFiles ==
  SeqsUpTo(RowSet, MaxRows)
  \cup {<<RowShort>>, <<RowName, RowShort>>, <<RowGood, RowName>>}
  \cup {Repeat(RowShort, UploadBatchSize + 1), Repeat(RowGood, DefaultBatchSize + 1)}

\* records a caller of the module hands to processRecords: as readCSVFile builds
\* them, and with a contact or a location that is a number, not a string
Field(name, value) == [k |-> name, v |-> value]

RecGood ==
  << Field("original_id", Str(<<"1">>)), Field("short_description", Str(<<"S","p","i","l","l">>)),
     Field("contact_organizer", Str(<<"a","@","b",".","c","o">>)), Field("location", Str(<<"N","Y","A"," ","4">>)) >>

RecNoContact ==
  << Field("original_id", Str(<<"2">>)), Field("short_description", Str(<<"L","e","a","k">>)),
     Field("location", Str(<<"A","n","n","e","x">>)) >>

RecNumberContact ==
  << Field("original_id", Str(<<"3">>)), Field("short_description", Str(<<"N","o","i","s","e">>)),
     Field("contact_organizer", Num(<<"4","2">>)), Field("location", Str(<<"Q","C">>)) >>

RecNumberLocation ==
  << Field("original_id", Str(<<"4">>)), Field("short_description", Str(<<"D","u","s","t">>)),
     Field("contact_organizer", Str(<<"e","@","f",".","o","r","g">>)), Field("location", Num(<<"7">>)) >>

ModuleRecordSet == {RecGood, RecNumberContact, RecNumberLocation}

ModuleBatchSizes == {1, MaxRows - 1, DefaultBatchSize}


NoCall == [fn |-> "none", args |-> <<>>]

\* the portal before anything is typed: the fields of the constructor
NoUser == [email |-> <<>>, department |-> <<>>]

NoInputs == [url |-> <<>>, key |-> <<>>, email |-> <<>>, department |-> <<>>]

EmptyStorage ==
  [flexform_templates |-> FALSE, configs |-> {}, credentials |-> <<>>, drafts |-> {}]

\* this.supabase = null
NoClient == [url |-> <<>>, key |-> <<>>, tested |-> "none"]

PortalUnused ==
  /\ inputs = NoInputs /\ isConnected = FALSE /\ supabase = NoClient /\ currentUser = NoUser
  /\ templates = <<>> /\ currentTemplate = "null"
  /\ localStorage = EmptyStorage /\ form = <<>> /\ message = "none" /\ shown = <<>>

\* the key manager and the loader before any call: the fields of the constructors
Bool(b) == [t |-> "boolean", s |-> IF b THEN <<"t","r","u","e">> ELSE <<"f","a","l","s","e">>]

NoBlob == [made |-> FALSE, text |-> <<>>, plain |-> <<>>, password |-> <<>>]

NoKeyCall ==
  [fn |-> "none", arg |-> Undefined, answer |-> Undefined, status |-> "none", value |-> Undefined,
   error |-> "none", prompted |-> FALSE, alerted |-> FALSE]

NoSecureConfig == [encrypted |-> FALSE, serviceKey |-> <<>>]

KeysUnused ==
  /\ encryptionKey = NoKey /\ initialized = FALSE /\ serviceKey = Null
  /\ secureConfig = NoSecureConfig /\ cryptoWorks = TRUE
  /\ lastBlob = NoBlob /\ lastCall = NoKeyCall

\* no upload loop has sent anything
RequestsIdle == awaiting = FALSE /\ inFlight = <<>> /\ issued = <<>>

\* importData was not called again
FirstRun == reruns = 0

\* localStorage.getItem(draftKey) === null
NoDraft == [stored |-> FALSE, template |-> "", data |-> <<>>, savedAt |-> <<>>]

TabsUnused == tabs = <<>> /\ lastWriter = 0 /\ writes = 0

\* this.connection of the constructor, and of disconnect()
NoConnection == [siteUrl |-> <<>>, token |-> <<>>, connected |-> FALSE, lastPing |-> Null,
                 siteId |-> <<>>]

SharePointUnused ==
  connection = NoConnection /\ listCache = {} /\ pending = <<>> /\ disconnected = FALSE
(***************************************************************************)
(* scripts/import-data.js: main, importData and its steps.                 *)
(***************************************************************************)
UploadFrame ==
  UNCHANGED <<program, csvExists, hasCredentials, csvRows, batchSize, apiCall, apiRet, portalVars, keyVars, tabVars,
              sharePointVars, reruns>>

ImportFrame == UploadFrame /\ UNCHANGED uploadVars

SameConnected == UNCHANGED connected

\* importData's catch: return { success: false, error }
Failure == [status |-> "failure", totalRecords |-> 0, uploadedRecords |-> 0, errors |-> 0]

\* main: the CSV file must exist, or the process exits with 1
MainCheckFile ==
  /\ program = "import-data" /\ pc = "main"
  /\ IF csvExists
     THEN pc' = "initialize" /\ UNCHANGED exitCode
     ELSE pc' = "exited" /\ exitCode' = 1
  /\ UNCHANGED <<lineCount, records, importStats, i, j, processedRecords, uploadedCount,
                 store, result>>
  /\ ImportFrame /\ SameConnected

\* initialize: throws without credentials
Initialize ==
  /\ program \in {"import-data", "library"} /\ pc = "initialize"
  /\ IF hasCredentials
     THEN pc' = "testConnection" /\ UNCHANGED result
     ELSE pc' = "main_result" /\ result' = Failure
  /\ UNCHANGED <<lineCount, records, importStats, i, j, processedRecords, uploadedCount,
                 store, exitCode>>
  /\ ImportFrame /\ SameConnected

\* importData going on whatever testConnection returned
TestConnectionUnchecked(ok) ==
  /\ program \in {"import-data", "library"} /\ pc = "testConnection"
  /\ connected' = IF ok THEN "yes" ELSE "no"
  /\ pc' = "ensureTableExists"
  /\ UNCHANGED <<lineCount, records, importStats, i, j, processedRecords, uploadedCount,
                 store, exitCode, result>>
  /\ ImportFrame

\* testConnection returns whether the request succeeded; importData throws if not
TestConnection(ok) ==
  /\ program \in {"import-data", "library"} /\ pc = "testConnection"
  /\ connected' = IF ok THEN "yes" ELSE "no"
  /\ IF ok
     THEN pc' = "ensureTableExists" /\ UNCHANGED result
     ELSE pc' = "main_result" /\ result' = Failure
  /\ UNCHANGED <<lineCount, records, importStats, i, j, processedRecords, uploadedCount,
                 store, exitCode>>
  /\ ImportFrame

\* ensureTableExists: true when the table answers, createTable (true) when not
EnsureTableExists ==
  /\ program \in {"import-data", "library"} /\ pc = "ensureTableExists"
  /\ pc' = "readCSVFile"
  /\ lineCount' = 0 /\ records' = <<>>
  /\ UNCHANGED <<importStats, i, j, processedRecords, uploadedCount, store, result, exitCode>>
  /\ ImportFrame /\ SameConnected

\* the record readCSVFile builds from a row, and the warnings after its two parseDate calls
RecordOfRow(row, warnings) ==
  LET occurred == parseDate(Get(row, "When did the event occur?"), warnings)
      detected == parseDate(Get(row, "When was the event detected?"), occurred.warnings)
  IN  [record |->
         << Field("original_id", Get(row, "ID")),
            Field("short_description", Get(row, "Short Description")),
            Field("contact_organizer", Get(row, "Contact / Organizer")),
            Field("location", Get(row, "Where (building/room #/lab)?")),
            Field("event_occurred", occurred.ret),
            Field("event_detected", detected.ret),
            Field("expected_results", Get(row, "Expected Results")),
            Field("process_confidence", Get(row, "Based on process conf., Gemba 100% effective")),
            Field("gemba_outcome", Get(row, "Outcome of Gemba")) >>,
       warnings |-> detected.warnings]

\* readCSVFile, on 'data'
ReadRow ==
  /\ program \in {"import-data", "library"} /\ pc = "readCSVFile"
  /\ lineCount < Len(csvRows)
  /\ LET read == RecordOfRow(csvRows[lineCount + 1], importStats.warnings)
     IN  /\ lineCount' = lineCount + 1
         /\ records' = Append(records, read.record)
         /\ importStats' = [importStats EXCEPT !.warnings = read.warnings]
  /\ UNCHANGED <<pc, i, j, processedRecords, uploadedCount, store, result, exitCode>>
  /\ ImportFrame /\ SameConnected

\* readCSVFile, on 'end'; importData then sets totalRecords and calls processRecords
ReadEnd ==
  /\ program \in {"import-data", "library"} /\ pc = "readCSVFile"
  /\ lineCount = Len(csvRows)
  /\ importStats' = [importStats EXCEPT !.totalRecords = Len(records)]
  /\ pc' = "processRecords"
  /\ i' = 0 /\ j' = 0 /\ processedRecords' = <<>>
  /\ UNCHANGED <<lineCount, records, uploadedCount, store, result, exitCode>>
  /\ ImportFrame /\ SameConnected

\* readCSVFile, on 'error': the promise rejects and importData returns failure
ReadError ==
  /\ program \in {"import-data", "library"} /\ pc = "readCSVFile"
  /\ pc' = "main_result" /\ result' = Failure
  /\ UNCHANGED <<lineCount, records, importStats, i, j, processedRecords, uploadedCount,
                 store, exitCode>>
  /\ ImportFrame /\ SameConnected

(***************************************************************************)
(* processRecords: one step handles one record of the current batch.       *)
(***************************************************************************)
\* records.slice(from, from + size)
Slice(list, from, size) == SubSeq(list, from + 1, Min(from + size, Len(list)))

\* the body of the try block for one record: the record pushed (Thrown when a
\* call raised) and encryptedFields afterwards
SecureRecord(record, encryptedFields) ==
  LET encrypted == encryptSensitiveData(record, encryptedFields)
      department == extractDepartment(Get(record, "location"))
  IN  IF encrypted.ret = Thrown THEN [ret |-> Thrown, encryptedFields |-> encrypted.encryptedFields]
      ELSE IF department = Thrown THEN [ret |-> Thrown, encryptedFields |-> encrypted.encryptedFields]
      ELSE [ret |-> Spread(encrypted.ret,
                      << Field("department", department),
                         Field("security_classification", classifyRecord(record)),
                         Field("data_hash", generateDataHash(record)),
                         Field("import_batch", Str(batchId)),
                         Field("audit_log", Str(auditLog)) >>),
            encryptedFields |-> encrypted.encryptedFields]

\* a batch loop that leaves out the record after each batch
NextIndexSkipping(size) ==
  IF j + 1 < Len(Slice(records, i, size)) THEN [i |-> i, j |-> j + 1]
  ELSE [i |-> i + size + 1, j |-> 0]

\* the loop indices after one more record of the batch at offset i
NextIndex(size) ==
  IF j + 1 < Len(Slice(records, i, size)) THEN [i |-> i, j |-> j + 1]
  ELSE [i |-> i + size, j |-> 0]

CatchRecordErrorUncounted(stats) == stats

\* the statistics after a record whose processing threw
CatchRecordError(stats) == [stats EXCEPT !.errors = @ + 1]

ProcessRecord ==
  /\ program \in {"import-data", "library", "module"} /\ pc = "processRecords"
  /\ i < Len(records)
  /\ LET batch == Slice(records, i, batchSize)
         record == batch[j + 1]
         secure == SecureRecord(record, importStats.encryptedFields)
         stats == [importStats EXCEPT !.encryptedFields = secure.encryptedFields]
         next == NextIndex(batchSize)
     IN  /\ IF secure.ret = Thrown
            THEN /\ importStats' = CatchRecordError(stats)
                 /\ UNCHANGED processedRecords
            ELSE /\ importStats' = [stats EXCEPT !.processedRecords = @ + 1]
                 /\ processedRecords' = Append(processedRecords, secure.ret)
         /\ i' = next.i /\ j' = next.j
  /\ UNCHANGED <<pc, lineCount, records, uploadedCount, store, result, exitCode>>
  /\ ImportFrame /\ SameConnected

\* processRecords returns; uploadToDatabase(processedRecords) starts
ProcessReturn ==
  /\ program \in {"import-data", "library", "module"} /\ pc = "processRecords"
  /\ i >= Len(records)
  /\ pc' = "uploadToDatabase"
  /\ i' = 0 /\ j' = 0 /\ uploadedCount' = 0
  /\ UNCHANGED <<lineCount, records, importStats, processedRecords, store, result, exitCode>>
  /\ ImportFrame /\ SameConnected

(***************************************************************************)
(* uploadToDatabase: one step is one batch.  The request of the batch is   *)
(* the awaited call of the try block; when it rejects, the catch counts    *)
(* the batch as errors.                                                    *)
(***************************************************************************)
UploadFailedUncounted(stats, batch) == stats

\* the statistics after the catch of a failed batch
UploadFailed(stats, batch) == [stats EXCEPT !.errors = @ + Len(batch)]

Unawaited == FALSE

\* await: the loop goes on only when the promise of the request has settled
Awaited == TRUE

\* the offsets in flight without the first entry for offset
Settle(offsets, offset) ==
  LET first == CHOOSE k \in 1..Len(offsets) :
                 offsets[k] = offset /\ \A n \in 1..(k - 1) : offsets[n] # offset
  IN  SubSeq(offsets, 1, first - 1) \o SubSeq(offsets, first + 1, Len(offsets))

\* the request of the batch at offset i is made and awaited
UploadIssue ==
  /\ program \in {"import-data", "library", "module"} /\ pc = "uploadToDatabase"
  /\ ~awaiting /\ i < Len(processedRecords)
  /\ awaiting' = Awaited
  /\ inFlight' = Append(inFlight, i) /\ issued' = Append(issued, i)
  /\ UNCHANGED <<pc, i, j, lineCount, records, importStats, processedRecords, uploadedCount,
                 store, result, exitCode>>
  /\ UploadFrame /\ SameConnected

\* the request settles (ok: it resolved) and the loop goes on
UploadBatch(ok) ==
  /\ program \in {"import-data", "library", "module"} /\ pc = "uploadToDatabase"
  /\ inFlight # <<>> /\ i < Len(processedRecords)
  /\ awaiting' = FALSE /\ inFlight' = Settle(inFlight, i) /\ UNCHANGED issued
  /\ LET batch == Slice(processedRecords, i, UploadBatchSize)
     IN  /\ store' = Append(store, [rows |-> batch, ok |-> ok])
         /\ IF ok
            THEN uploadedCount' = uploadedCount + Len(batch) /\ UNCHANGED importStats
            ELSE importStats' = UploadFailed(importStats, batch) /\ UNCHANGED uploadedCount
  /\ i' = i + UploadBatchSize
  /\ UNCHANGED <<pc, j, lineCount, records, processedRecords, result, exitCode>>
  /\ UploadFrame /\ SameConnected

\* uploadToDatabase returns; importData reports and returns success
UploadReturn ==
  /\ program \in {"import-data", "library", "module"} /\ pc = "uploadToDatabase"
  /\ i >= Len(processedRecords)
  /\ IF program \in {"import-data", "library"}
     THEN /\ pc' = "main_result"
          /\ result' = [status |-> "success", totalRecords |-> importStats.totalRecords,
                        uploadedRecords |-> uploadedCount, errors |-> importStats.errors]
     ELSE pc' = "returned" /\ UNCHANGED result
  /\ UNCHANGED <<i, j, lineCount, records, importStats, processedRecords, uploadedCount,
                 store, exitCode>>
  /\ ImportFrame /\ SameConnected

ExitCodeZero(outcome) == 0

\* main: process.exit(0) on success, process.exit(1) otherwise
ExitCodeOf(outcome) == IF outcome.status = "success" THEN 0 ELSE 1

MainExit ==
  /\ program = "import-data" /\ pc = "main_result"
  /\ exitCode' = ExitCodeOf(result)
  /\ pc' = "exited"
  /\ UNCHANGED <<i, j, lineCount, records, importStats, processedRecords, uploadedCount,
                 store, result>>
  /\ ImportFrame /\ SameConnected

\* the files a caller of the library imports
LibraryFiles == {<<>>, <<RowGood>>, <<RowGood, RowShort>>, <<RowName, RowGood, RowBadDate>>}

\* a caller of the library calls importData again on the instance, after the call
\* before it returned: the locals are new, the fields of the instance are kept
ImportDataAgain(file) ==
  /\ program = "library" /\ pc = "main_result"
  /\ reruns < MaxReruns
  /\ reruns' = reruns + 1
  /\ csvRows' = file
  /\ pc' = "initialize"
  /\ connected' = "none" /\ lineCount' = 0 /\ records' = <<>>
  /\ i' = 0 /\ j' = 0 /\ processedRecords' = <<>> /\ uploadedCount' = 0
  /\ result' = NoResult
  /\ UNCHANGED <<importStats, store, exitCode>>
  /\ UNCHANGED <<program, csvExists, hasCredentials, batchSize, apiCall, apiRet, portalVars,
                 keyVars, tabVars, sharePointVars, uploadVars>>

InitImport ==
  /\ \/ /\ program = "import-data" /\ pc = "main"
        /\ csvExists \in BOOLEAN /\ hasCredentials \in BOOLEAN
        /\ csvRows \in CsvFiles
        /\ records = <<>> /\ batchSize = DefaultBatchSize
     \/ /\ program = "module" /\ pc = "processRecords"
        /\ csvExists = FALSE /\ hasCredentials = TRUE /\ csvRows = <<>>
        /\ records \in SeqsUpTo(ModuleRecordSet, MaxRows)
        /\ batchSize \in ModuleBatchSizes
  /\ connected = "none" /\ lineCount = 0 /\ importStats = ZeroStats
  /\ i = 0 /\ j = 0 /\ processedRecords = <<>> /\ uploadedCount = 0
  /\ store = <<>> /\ result = NoResult /\ exitCode = -1
  /\ apiCall = NoCall /\ apiRet = <<>>
  /\ PortalUnused /\ KeysUnused /\ RequestsIdle /\ FirstRun /\ TabsUnused /\ SharePointUnused

NextImport ==
  \/ MainCheckFile
  \/ Initialize
  \/ \E ok \in BOOLEAN : TestConnection(ok)
  \/ EnsureTableExists
  \/ ReadRow
  \/ ReadEnd
  \/ ReadError
  \/ ProcessRecord
  \/ ProcessReturn
  \/ UploadIssue
  \/ \E ok \in BOOLEAN : UploadBatch(ok)
  \/ UploadReturn
  \/ MainExit

SpecImport == InitImport /\ [][NextImport]_vars


\* an instance made by a caller of the library, before its first importData
InitLibrary ==
  /\ program = "library" /\ pc = "initialize"
  /\ csvExists = TRUE /\ hasCredentials \in BOOLEAN
  /\ csvRows \in LibraryFiles
  /\ records = <<>> /\ batchSize = DefaultBatchSize
  /\ connected = "none" /\ lineCount = 0 /\ importStats = ZeroStats
  /\ i = 0 /\ j = 0 /\ processedRecords = <<>> /\ uploadedCount = 0
  /\ store = <<>> /\ result = NoResult /\ exitCode = -1
  /\ apiCall = NoCall /\ apiRet = <<>>
  /\ PortalUnused /\ KeysUnused /\ RequestsIdle /\ FirstRun /\ TabsUnused /\ SharePointUnused

NextLibrary ==
  \/ Initialize
  \/ \E ok \in BOOLEAN : TestConnection(ok)
  \/ EnsureTableExists
  \/ ReadRow
  \/ ReadEnd
  \/ ReadError
  \/ ProcessRecord
  \/ ProcessReturn
  \/ UploadIssue
  \/ \E ok \in BOOLEAN : UploadBatch(ok)
  \/ UploadReturn
  \/ \E file \in LibraryFiles : ImportDataAgain(file)

SpecLibrary == InitLibrary /\ [][NextLibrary]_vars
(***************************************************************************)
(* "api": one helper of a fresh SecureDataImporter is called on each of    *)
(* the arguments in turn.                                                  *)
(***************************************************************************)
MonthNames == << <<"J","A","N">>, <<"F","E","B">>, <<"M","A","R">>, <<"A","P","R">>, <<"M","A","Y">>, <<"J","U","N">>,
                 <<"J","U","L">>, <<"A","U","G">>, <<"S","E","P">>, <<"O","C","T">>, <<"N","O","V">>, <<"D","E","C">> >>

\* DDMMMYY strings: every day number up to MaxDay, every month of the table and
\* one outside it, leap and common years
DDMMMYYInputs ==
  {TwoDigits(d) \o m \o y :
     d \in 0..MaxDay,
     m \in {MonthNames[k] : k \in 1..12} \cup {<<"X","Y","Z">>},
     y \in {<<"0","0">>, <<"2","4">>, <<"2","5">>, <<"9","9">>}}

DateInputs ==
  {Str(s) : s \in DDMMMYYInputs}
  \cup {Str(<<"n","o","t","-","a","-","d","a","t","e">>), Str(<<"t","o","m","o","r","r","o","w">>), Str(<<>>), Str(<<" "," "," ">>), Str(<<" ","0","1","O","C","T","2","5"," ">>),
        Str(<<"9","9","D","E","C","2","5">>), Str(<<"2","0","2","5","-","1","0","-","0","1">>), Str(<<"2","0","2","5","-","1","3","-","0","1">>), Str(<<"2","0","2","5","-","0","2","-","3","0">>),
        Str(<<" ","n","/","a"," ">>), Undefined, Null}

LocationTokens ==
  {<<"N","Y","A">>, <<"n","y","a">>, <<"F","O","R","B","E","S">>, <<"F","o","r","b","e","s">>, <<"Q","C">>, <<"q","c">>, <<"M","I","C","R","O">>, <<"m","i","c","r","o">>,
   <<"A","n","n","e","x">>, <<"N","Y">>, <<"A">>, <<"M","I","C">>, <<"R","O">>, <<" ","B","u","i","l","d","i","n","g"," ","4">>, <<"Q">>, <<"C">>}

RECURSIVE Concat(_)
Concat(list) == IF list = <<>> THEN <<>> ELSE Head(list) \o Concat(Tail(list))

LocationInputs ==
  {Str(Concat(tokens)) : tokens \in SeqsUpTo(LocationTokens, MaxLocTokens)}
  \cup {Undefined, Null}

\* records as readCSVFile builds them from the rows
ClassifyInputs ==
  {RecordOfRow(row, 0).record : row \in RowSet \cup {RowShort, RowName}}
  \cup ModuleRecordSet \cup {RecNoContact}

\* records to hash: a record, the same properties in another order, and the
\* record with one value changed
HashRecord(description, contact, location) ==
  << Field("original_id", Str(<<"1">>)), Field("short_description", Str(description)),
     Field("contact_organizer", Str(contact)), Field("location", Str(location)) >>

HashRecordReordered(description, contact, location) ==
  << Field("location", Str(location)), Field("short_description", Str(description)),
     Field("original_id", Str(<<"1">>)), Field("contact_organizer", Str(contact)) >>

HashInputs ==
  LET descriptions == {<<"S","p","i","l","l">>, <<"S","p","i","l","l"," ","i","n"," ","l","a","b"," ","2">>}
      contacts == {<<"a","@","b",".","c","o">>, <<"z","@","b",".","c","o">>}
      locations == {<<"N","Y","A">>, <<"A","n","n","e","x">>}
  IN  {HashRecord(d, c, l) : d \in descriptions, c \in contacts, l \in locations}
      \cup {HashRecordReordered(d, c, l) : d \in descriptions, c \in contacts, l \in locations}
      \cup {RecNoContact, RecordOfRow(RowGood, 0).record}

(***************************************************************************)
(* The exports of the portal: exportToCSV, exportToExcel, exportToPDF.     *)
(***************************************************************************)
excludeFieldsDataHash == {"data_hash"}

\* excludeFields of exportToCSV
excludeFields == {"contact_organizer_encrypted", "contact_organizer_hash", "data_hash", "audit_log"}

\* value.replace(/"/g, '""')
RECURSIVE DoubleQuotes(_)
DoubleQuotes(s) ==
  IF s = <<>> THEN <<>>
  ELSE (IF Head(s) = "\"" THEN <<"\"", "\"">> ELSE <<Head(s)>>) \o DoubleQuotes(Tail(s))

\* the text of one cell: record[col] || '', escaped when it is a string
CsvCellUnquoted(value) ==
  IF ~Truthy(value) THEN <<>> ELSE IF IsStr(value) THEN DoubleQuotes(value.s) ELSE value.s

CsvCell(value) ==
  IF ~Truthy(value) THEN <<>>
  ELSE IF ~IsStr(value) THEN value.s
  ELSE LET escaped == DoubleQuotes(value.s)
       IN  IF \E k \in 1..Len(escaped) : escaped[k] \in {",", "\n", "\""}
           THEN <<"\"">> \o escaped \o <<"\"">>
           ELSE escaped

\* array.join(',')
RECURSIVE JoinComma(_)
JoinComma(cells) ==
  IF cells = <<>> THEN <<>>
  ELSE IF Len(cells) = 1 THEN Head(cells)
  ELSE Head(cells) \o <<",">> \o JoinComma(Tail(cells))

\* the text exportToCSV puts into the blob
exportToCSV(data) ==
  LET columns == SelectSeq(Keys(data[1]), LAMBDA key : key \notin excludeFields)
      line(record) == JoinComma([c \in 1..Len(columns) |-> CsvCell(Get(record, columns[c]))])
      header == JoinComma([c \in 1..Len(columns) |-> KeyChars[columns[c]]]) \o <<"\n">>
  IN  header \o Concat([r \in 1..Len(data) |-> line(data[r]) \o <<"\n">>])

\* key.replace('_', ' '): the first underscore
ReplaceUnderscore(s) ==
  IF \E k \in 1..Len(s) : s[k] = "_"
  THEN LET first == CHOOSE k \in 1..Len(s) : s[k] = "_" /\ \A n \in 1..(k - 1) : s[n] # "_"
       IN  [k \in 1..Len(s) |-> IF k = first THEN " " ELSE s[k]]
  ELSE s

\* cleanData of exportToExcel, the rows handed to json_to_sheet: the column
\* names are texts
exportToExcel(data) ==
  [r \in 1..Len(data) |->
     LET kept == SelectSeq(data[r],
                   LAMBDA p : /\ ~Includes(KeyChars[p.k], <<"e","n","c","r","y","p","t","e","d">>)
                              /\ ~Includes(KeyChars[p.k], <<"h","a","s","h">>)
                              /\ p.k # "audit_log")
     IN  [c \in 1..Len(kept) |-> [k |-> ReplaceUnderscore(KeyChars[kept[c].k]), v |-> kept[c].v]]]

\* doc.internal.pageSize.height of new jsPDF(): an a4 page in millimetres
pageHeight == 297

keyFields == <<"id", "short_description", "location", "created_at", "department">>

\* the lines of a record drawn from yPosition on
RecordLines(record, page, yPosition) ==
  LET present == SelectSeq(keyFields, LAMBDA field : Truthy(Get(record, field)))
  IN  << [page |-> page, y |-> yPosition, text |-> "Record"] >>
      \o [k \in 1..Len(present) |-> [page |-> page, y |-> yPosition + 10 + 7 * (k - 1),
                                      text |-> present[k]]]

\* data.forEach of exportToPDF: the calls of doc.text for the records
RECURSIVE PdfLines(_, _, _)
PdfLines(data, page, yPosition) ==
  IF data = <<>> THEN <<>>
  ELSE LET newPage == yPosition > pageHeight - 30
           p == IF newPage THEN page + 1 ELSE page
           y == IF newPage THEN 20 ELSE yPosition
           lines == RecordLines(Head(data), p, y)
       IN  lines \o PdfLines(Tail(data), p, y + 10 + 7 * (Len(lines) - 1) + 5)

exportToPDF(data) == PdfLines(data, 1, 70)

\* the values of a cell: texts with commas, quotes and line breaks, the empty
\* text, null, numbers
CsvValues ==
  { Str(<<"S","p","i","l","l">>), Str(<<"x",",","y">>), Str(<<"z","\"","w">>), Str(<<"t","w","o">> \o <<"\n">> \o <<"l","i","n","e","s">>),
    Str(<<"\"","q","\"",","," ">> \o <<"\r", "\n">>), Str(<<>>), Null, Num(<<"7">>), Num(<<"0">>) }

\* a row of gemba_requests as import-data.js creates the table, and a row of a
\* table with another column
TableRecord(description) ==
  << Field("id", Num(<<"7">>)), Field("short_description", description),
     Field("contact_organizer_encrypted", Str(<<"Y","U","B","i","L","m","N","v","_","e","n","c","r","y","p","t","e","d">>)),
     Field("contact_organizer_hash", Str(<<"Y","U","B","i","L","m","N","v">>)),
     Field("location", Str(<<"N","Y","A">>)), Field("data_hash", Str(<<"e","y","J","j","b","2","5","0">>)),
     Field("audit_log", Str(<<"[","]">>)), Field("department", Str(<<"Q","C">>)) >>

AlteredRecord ==
  << Field("id", Num(<<"8">>)), Field("short_description", Str(<<"D","u","s","t">>)),
     Field("email_hash", Str(<<"c","G","F","0">>)) >>

ExportInputs ==
  { << <<Field("a", x), Field("b", y)>> >> : x \in CsvValues, y \in CsvValues }
  \cup { << <<Field("a", x), Field("b", y)>>, <<Field("b", x), Field("a", Str(<<"x",",","y">>))>> >> :
           x \in CsvValues, y \in {Str(<<"z","\"","w">>), Null} }
  \cup { << TableRecord(x) >> : x \in CsvValues }
  \cup { << TableRecord(Str(<<"S","p","i","l","l">>)), AlteredRecord >>, << AlteredRecord >> }

\* records with five, four and none of the key fields of exportToPDF
PdfRecords ==
  { << Field("id", Num(<<"7">>)), Field("short_description", Str(<<"S","p","i","l","l">>)),
       Field("location", Str(<<"N","Y","A">>)), Field("created_at", Str(<<"2","0","2","5","-","1","0","-","0","3">>)),
       Field("department", Str(<<"Q","C">>)) >>,
    << Field("id", Num(<<"7">>)), Field("short_description", Str(<<"S","p","i","l","l">>)),
       Field("location", Null), Field("created_at", Str(<<"2","0","2","5","-","1","0","-","0","3">>)),
       Field("department", Str(<<"Q","C">>)) >>,
    << Field("original_id", Str(<<"1">>)) >> }

PdfInputs == SeqsUpTo(PdfRecords, MaxPdfRecords) \ {<<>>}

ApiFrame ==
  UNCHANGED <<program, pc, csvExists, hasCredentials, csvRows, connected, lineCount, records,
              batchSize, i, j, processedRecords, uploadedCount, store, result, exitCode, apiCall, portalVars, keyVars, uploadVars, reruns,
              tabVars, sharePointVars>>

ApiNext(fn) ==
  /\ program = "api" /\ apiCall.fn = fn
  /\ Len(apiRet) < Len(apiCall.args)

ApiArg == apiCall.args[Len(apiRet) + 1]

CallParseDate ==
  /\ ApiNext("parseDate")
  /\ LET call == parseDate(ApiArg, importStats.warnings)
     IN  /\ apiRet' = Append(apiRet, call.ret)
         /\ importStats' = [importStats EXCEPT !.warnings = call.warnings]
  /\ ApiFrame

CallExtractDepartment ==
  /\ ApiNext("extractDepartment")
  /\ apiRet' = Append(apiRet, extractDepartment(ApiArg))
  /\ UNCHANGED importStats
  /\ ApiFrame

CallClassifyRecord ==
  /\ ApiNext("classifyRecord")
  /\ apiRet' = Append(apiRet, classifyRecord(ApiArg))
  /\ UNCHANGED importStats
  /\ ApiFrame

CallGenerateDataHash ==
  /\ ApiNext("generateDataHash")
  /\ apiRet' = Append(apiRet, generateDataHash(ApiArg))
  /\ UNCHANGED importStats
  /\ ApiFrame

CallExportToCSV ==
  /\ ApiNext("exportToCSV")
  /\ apiRet' = Append(apiRet, Str(exportToCSV(ApiArg)))
  /\ UNCHANGED importStats
  /\ ApiFrame

CallExportToExcel ==
  /\ ApiNext("exportToExcel")
  /\ apiRet' = Append(apiRet, exportToExcel(ApiArg))
  /\ UNCHANGED importStats
  /\ ApiFrame

CallExportToPDF ==
  /\ ApiNext("exportToPDF")
  /\ apiRet' = Append(apiRet, exportToPDF(ApiArg))
  /\ UNCHANGED importStats
  /\ ApiFrame

InitApi ==
  /\ program = "api" /\ pc = "api"
  /\ \/ /\ apiCall \in [fn : {"parseDate"}, args : {<<d>> : d \in DateInputs}]
        /\ importStats \in {[ZeroStats EXCEPT !.warnings = w] : w \in 0..MaxWarnings}
     \/ /\ apiCall \in [fn : {"extractDepartment"}, args : {<<l>> : l \in LocationInputs}]
        /\ importStats = ZeroStats
     \/ /\ apiCall \in [fn : {"classifyRecord"}, args : {<<r>> : r \in ClassifyInputs}]
        /\ importStats = ZeroStats
     \/ /\ apiCall \in [fn : {"generateDataHash"}, args : {<<r, s>> : r \in HashInputs, s \in HashInputs}]
        /\ importStats = ZeroStats
     \/ /\ apiCall \in [fn : {"exportToCSV", "exportToExcel"}, args : {<<d>> : d \in ExportInputs}]
        /\ importStats = ZeroStats
     \/ /\ apiCall \in [fn : {"exportToPDF"}, args : {<<d>> : d \in PdfInputs}]
        /\ importStats = ZeroStats
  /\ apiRet = <<>>
  /\ csvExists = FALSE /\ hasCredentials = TRUE /\ csvRows = <<>> /\ connected = "none"
  /\ lineCount = 0 /\ records = <<>> /\ batchSize = DefaultBatchSize
  /\ i = 0 /\ j = 0 /\ processedRecords = <<>> /\ uploadedCount = 0
  /\ store = <<>> /\ result = NoResult /\ exitCode = -1
  /\ PortalUnused /\ KeysUnused /\ RequestsIdle /\ FirstRun /\ TabsUnused /\ SharePointUnused

NextApi ==
  \/ CallParseDate
  \/ CallExtractDepartment
  \/ CallClassifyRecord
  \/ CallGenerateDataHash
  \/ CallExportToCSV
  \/ CallExportToExcel
  \/ CallExportToPDF

SpecApi == InitApi /\ [][NextApi]_vars

(***************************************************************************)
(* scripts/simple-import.js: importData.                                   *)
(***************************************************************************)
\* the connection test; on an error the function returns
SimpleTestConnection(ok) ==
  /\ program = "simple-import" /\ pc = "testConnection"
  /\ connected' = IF ok THEN "yes" ELSE "no"
  /\ pc' = IF ok THEN "createTable" ELSE "returned"
  /\ UNCHANGED <<lineCount, records, importStats, i, j, processedRecords, uploadedCount,
                 store, result, exitCode>>
  /\ ImportFrame

\* exec_sql: its error and its exception are logged, nothing else
SimpleCreateTable ==
  /\ program = "simple-import" /\ pc = "createTable"
  /\ pc' = "readCSV"
  /\ lineCount' = 0 /\ records' = <<>>
  /\ UNCHANGED <<importStats, i, j, processedRecords, uploadedCount, store, result, exitCode>>
  /\ ImportFrame /\ SameConnected

\* the record pushed for a row
SimpleRecordOfRow(row) ==
  << Field("request_id", Get(row, "ID")),
     Field("short_description", Get(row, "Short Description")),
     Field("contact_organizer", Get(row, "Contact / Organizer")),
     Field("location", Get(row, "Where (building/room #/lab)?")),
     Field("event_occurred", Get(row, "When did the event occur?")),
     Field("event_detected", Get(row, "When was the event detected?")),
     Field("expected_results", Get(row, "Expected Results")),
     Field("process_effectiveness", Get(row, "Based on process conf., Gemba 100% effective")),
     Field("outcome", Get(row, "Outcome of Gemba")) >>

\* on 'data'
SimpleReadRow ==
  /\ program = "simple-import" /\ pc = "readCSV"
  /\ csvExists /\ lineCount < Len(csvRows)
  /\ lineCount' = lineCount + 1
  /\ records' = Append(records, SimpleRecordOfRow(csvRows[lineCount + 1]))
  /\ UNCHANGED <<pc, importStats, i, j, processedRecords, uploadedCount, store, result, exitCode>>
  /\ ImportFrame /\ SameConnected

\* on 'end': the insert loop starts
SimpleReadEnd ==
  /\ program = "simple-import" /\ pc = "readCSV"
  /\ csvExists /\ lineCount = Len(csvRows)
  /\ pc' = "insert"
  /\ i' = 0 /\ uploadedCount' = 0
  /\ UNCHANGED <<lineCount, records, importStats, j, processedRecords, store, result, exitCode>>
  /\ ImportFrame /\ SameConnected

\* on 'error' (the file is missing or cannot be read): the promise rejects
SimpleReadError ==
  /\ program = "simple-import" /\ pc = "readCSV"
  /\ pc' = "rejected"
  /\ UNCHANGED <<lineCount, records, importStats, i, j, processedRecords, uploadedCount,
                 store, result, exitCode>>
  /\ ImportFrame /\ SameConnected

SimpleOutcomes == {"inserted", "error", "exception"}

\* imported after a batch that was inserted
SimpleImported(imported, batch) == imported + Len(batch)

\* the insert of the batch at offset i is requested and awaited
SimpleIssue ==
  /\ program = "simple-import" /\ pc = "insert"
  /\ ~awaiting /\ i < Len(records)
  /\ awaiting' = Awaited
  /\ inFlight' = Append(inFlight, i) /\ issued' = Append(issued, i)
  /\ UNCHANGED <<pc, i, j, lineCount, records, importStats, processedRecords, uploadedCount,
                 store, result, exitCode>>
  /\ UploadFrame /\ SameConnected

\* the request settles, the batch is counted when no error came back, and the
\* loop goes on
SimpleInsertBatch(outcome) ==
  /\ program = "simple-import" /\ pc = "insert"
  /\ inFlight # <<>> /\ i < Len(records)
  /\ awaiting' = FALSE /\ inFlight' = Settle(inFlight, i) /\ UNCHANGED issued
  /\ LET batch == Slice(records, i, SimpleBatchSize)
     IN  /\ store' = Append(store, [rows |-> batch, ok |-> outcome = "inserted"])
         /\ uploadedCount' = IF outcome = "inserted" THEN SimpleImported(uploadedCount, batch)
                             ELSE uploadedCount
  /\ i' = i + SimpleBatchSize
  /\ UNCHANGED <<pc, j, lineCount, records, importStats, processedRecords, result, exitCode>>
  /\ UploadFrame /\ SameConnected

\* the loop is over: resolve()
SimpleReturn ==
  /\ program = "simple-import" /\ pc = "insert"
  /\ i >= Len(records)
  /\ pc' = "returned"
  /\ UNCHANGED <<i, j, lineCount, records, importStats, processedRecords, uploadedCount,
                 store, result, exitCode>>
  /\ ImportFrame /\ SameConnected

SimpleFiles ==
  SeqsUpTo(RowSet, MaxRows) \cup {<<RowShort, RowName>>, Repeat(RowName, SimpleBatchSize + 1)}

InitSimple ==
  /\ program = "simple-import" /\ pc = "testConnection"
  /\ csvExists \in BOOLEAN /\ hasCredentials = TRUE
  /\ csvRows \in SimpleFiles
  /\ records = <<>> /\ batchSize = SimpleBatchSize
  /\ connected = "none" /\ lineCount = 0 /\ importStats = ZeroStats
  /\ i = 0 /\ j = 0 /\ processedRecords = <<>> /\ uploadedCount = 0
  /\ store = <<>> /\ result = NoResult /\ exitCode = -1
  /\ apiCall = NoCall /\ apiRet = <<>>
  /\ PortalUnused /\ KeysUnused /\ RequestsIdle /\ FirstRun /\ TabsUnused /\ SharePointUnused

NextSimple ==
  \/ \E ok \in BOOLEAN : SimpleTestConnection(ok)
  \/ SimpleCreateTable
  \/ SimpleReadRow
  \/ SimpleReadEnd
  \/ SimpleReadError
  \/ SimpleIssue
  \/ \E outcome \in SimpleOutcomes : SimpleInsertBatch(outcome)
  \/ SimpleReturn

SpecSimple == InitSimple /\ [][NextSimple]_vars

(***************************************************************************)
(* The user portal: FlexFormUser.  One step is one handler of the page,    *)
(* run to its end; the user fills the rendered form between handlers.      *)
(***************************************************************************)
PortalFrame ==
  UNCHANGED <<program, pc, csvExists, hasCredentials, csvRows, connected, lineCount, records,
              batchSize, importStats, i, j, processedRecords, uploadedCount, result, exitCode,
              apiCall, apiRet, inputs, keyVars, uploadVars, reruns, tabs, lastWriter,
              sharePointVars>>

\* this.templates of loadTemplates, and the two of them a user of the model selects
DefaultTemplates == <<"gemba-intake", "smartsheet-gemba", "basic-contact", "feedback-form">>

GembaTemplates == {"gemba-intake", "smartsheet-gemba"}

\* the template list of the admin panel, JSON.parse(savedTemplates) of loadTemplates
AdminTemplates == <<"gemba-intake", "smartsheet-gemba", "audit", "audit_5s">>

\* the templates a user of the model selects
SelectedTemplates == GembaTemplates \cup {"audit"}

TemplateName(id) ==
  CASE id = "gemba-intake" -> <<"G","e","m","b","a"," ","I","n","t","a","k","e"," ","F","o","r","m">>
    [] id = "smartsheet-gemba" -> <<"S","m","a","r","t","s","h","e","e","t"," ","G","e","m","b","a"," ","F","o","r","m">>
    [] id = "basic-contact" -> <<"B","a","s","i","c"," ","C","o","n","t","a","c","t"," ","F","o","r","m">>
    [] id = "audit" -> <<"A","u","d","i","t">>
    [] id = "audit_5s" -> <<"A","u","d","i","t"," ","5","S">>
    [] OTHER -> <<"F","e","e","d","b","a","c","k"," ","F","o","r","m">>

\* a field of a template: name is "undefined" for a field without the property
FormField(type, name, options, required) ==
  [type |-> type, hasName |-> TRUE, name |-> name, options |-> options, required |-> required]

IdField(type, options, required) ==
  [type |-> type, hasName |-> FALSE, name |-> "undefined", options |-> options,
   required |-> required]

\* gembaIntakeConfig of createDefaultTemplateConfigs, stored for both Gemba
\* templates: its fields carry an id and no name
gembaIntakeConfig ==
  << IdField("date", <<>>, TRUE),
     IdField("text", <<>>, TRUE),
     IdField("select", << <<"O","p","e","r","a","t","i","o","n","s">>, <<"Q","u","a","l","i","t","y">>, <<"E","n","g","i","n","e","e","r","i","n","g">>, <<"M","a","n","u","f","a","c","t","u","r","i","n","g">>,
                          <<"S","u","p","p","l","y"," ","C","h","a","i","n">>, <<"O","t","h","e","r">> >>, TRUE),
     IdField("text", <<>>, TRUE),
     IdField("textarea", <<>>, TRUE),
     IdField("select", << <<"H","i","g","h">>, <<"M","e","d","i","u","m">>, <<"L","o","w">> >>, TRUE),
     IdField("textarea", <<>>, FALSE) >>

\* the configuration the admin panel stored for its template audit: fields named
\* as the columns submitForm sets itself
auditConfig ==
  << FormField("text", "created_by", <<>>, TRUE),
     FormField("text", "department", <<>>, TRUE),
     FormField("select", "security_classification",
               << <<"p","u","b","l","i","c">>, <<"i","n","t","e","r","n","a","l">>, <<"r","e","s","t","r","i","c","t","e","d">> >>, TRUE),
     FormField("text", "short_description", <<>>, FALSE) >>

\* JSON.parse(localStorage.getItem(`flexform_template_${id}`)).fields
StoredFields(templateId) == IF templateId = "audit" THEN auditConfig ELSE gembaIntakeConfig

getDefaultTemplateFields(templateId) ==
  CASE templateId = "gemba-intake" ->
         << FormField("text", "short_description", <<>>, TRUE),
            FormField("email", "contact_organizer", <<>>, TRUE),
            FormField("text", "location", <<>>, TRUE),
            FormField("date", "event_occurred", <<>>, TRUE),
            FormField("date", "event_detected", <<>>, TRUE),
            FormField("textarea", "expected_results", <<>>, TRUE),
            FormField("select", "process_confidence",
                      << <<"Y","e","s">>, <<"N","o">>, <<"P","a","r","t","i","a","l","l","y">>, <<"U","n","k","n","o","w","n">> >>, TRUE),
            FormField("textarea", "gemba_outcome", <<>>, TRUE) >>
    [] templateId = "smartsheet-gemba" ->
         << FormField("text", "request_title", <<>>, TRUE),
            FormField("email", "requester_email", <<>>, TRUE),
            FormField("select", "priority", << <<"H","i","g","h">>, <<"M","e","d","i","u","m">>, <<"L","o","w">> >>, TRUE),
            FormField("textarea", "description", <<>>, TRUE),
            FormField("date", "due_date", <<>>, FALSE) >>
    [] OTHER -> <<>>

\* the fields renderTemplate and validateFormData find for a template: the stored
\* configuration when there is one, the default fields when not
TemplateFields(storage, templateId) ==
  IF templateId \in storage.configs THEN StoredFields(templateId)
  ELSE getDefaultTemplateFields(templateId)

\* renderFormField: the input of a field, empty; `${field.name}` of a field
\* without a name is the text undefined
renderFormField(field) ==
  [name |-> field.name, type |-> field.type, options |-> field.options, value |-> <<>>]

renderTemplate(storage, templateId) ==
  LET fields == TemplateFields(storage, templateId)
  IN  [k \in 1..Len(fields) |-> renderFormField(fields[k])]

RECURSIVE getFormDataFrom(_, _)
getFormDataFrom(formInputs, formData) ==
  IF formInputs = <<>> THEN formData
  ELSE getFormDataFrom(Tail(formInputs),
                       Set(formData, Head(formInputs).name, Str(Head(formInputs).value)))

\* getFormData: formData[name] = input.value for every input of the form
getFormData(formInputs) == getFormDataFrom(formInputs, <<>>)

\* /^[^\s@]+@[^\s@]+\.[^\s@]+$/
EmailRegexTest(s) ==
  /\ \A k \in 1..Len(s) : s[k] # " "
  /\ Cardinality({k \in 1..Len(s) : s[k] = "@"}) = 1
  /\ \E p \in 2..Len(s) :
       /\ s[p] = "@"
       /\ \E q \in (p + 2)..(Len(s) - 1) : s[q] = "."

\* the entries of errors for the required fields; Thrown when a required field
\* has no name and is blank (fieldName.replace of undefined)
RECURSIVE RequiredErrors(_, _, _)
RequiredErrors(fields, formData, errors) ==
  IF fields = <<>> THEN errors
  ELSE LET field == Head(fields)
           value == Get(formData, field.name)
           blank == ~Truthy(value) \/ trim(value.s) = <<>>
       IN  IF ~field.required THEN RequiredErrors(Tail(fields), formData, errors)
           ELSE IF ~blank THEN RequiredErrors(Tail(fields), formData, errors)
           ELSE IF ~field.hasName THEN Thrown
           ELSE RequiredErrors(Tail(fields), formData,
                               Append(errors, [field |-> field.name, error |-> "required"]))

\* the entries for the keys that hold email or organizer and a value that fails the test
RECURSIVE EmailErrors(_, _, _)
EmailErrors(keys, formData, errors) ==
  IF keys = <<>> THEN errors
  ELSE LET key == Head(keys)
           value == Get(formData, key)
           checked == /\ Includes(KeyChars[key], <<"e","m","a","i","l">>) \/ Includes(KeyChars[key], <<"o","r","g","a","n","i","z","e","r">>)
                      /\ Truthy(value)
       IN  IF checked /\ ~EmailRegexTest(value.s)
           THEN EmailErrors(Tail(keys), formData, Append(errors, [field |-> key, error |-> "email"]))
           ELSE EmailErrors(Tail(keys), formData, errors)

validateFormData(formData, storage, templateId) ==
  LET required == RequiredErrors(TemplateFields(storage, templateId), formData, <<>>)
  IN  IF required = Thrown THEN Thrown
      ELSE LET errors == EmailErrors(Keys(formData), formData, required)
           IN  [isValid |-> errors = <<>>, errors |-> errors]

\* btoa(data) + '_encrypted'
encryptData(data) == Base64(data) \o <<"_","e","n","c","r","y","p","t","e","d">>

\* btoa(data + 'salt').substring(0, 32)
hashData(data) == substring0(Base64(data \o <<"s","a","l","t">>), 32)

\* new Date().toISOString(): the clock is one fixed instant
createdAt == <<"2","0","2","5","-","1","0","-","0","3","T","1","8",":","4","2",":","2","0",".","0","0","0","Z">>

\* a record in which the members of the form come after the columns set by the page
PrepareDbDataFormLast(formData, user, templateId) ==
  Spread(<< Field("created_by", Str(user.email)),
            Field("department", Str(user.department)),
            Field("security_classification", Str(<<"i","n","t","e","r","n","a","l">>)),
            Field("source_file", Str(TemplateName(templateId) \o <<" ","-"," ","U","s","e","r"," ","S","u","b","m","i","s","s","i","o","n">>)),
            Field("created_at", Str(createdAt)) >>,
         formData)

\* dbData of submitForm, after the encryption block
PrepareDbData(formData, user, templateId) ==
  LET dbData == Spread(formData,
                  << Field("created_by", Str(user.email)),
                     Field("department", Str(user.department)),
                     Field("security_classification", Str(<<"i","n","t","e","r","n","a","l">>)),
                     Field("source_file", Str(TemplateName(templateId) \o <<" ","-"," ","U","s","e","r"," ","S","u","b","m","i","s","s","i","o","n">>)),
                     Field("created_at", Str(createdAt)) >>)
      contact == Get(dbData, "contact_organizer")
      emailField == IF Truthy(contact) THEN contact ELSE Get(dbData, "requester_email")
  IN  IF Truthy(emailField) /\ Includes(emailField.s, <<"@">>)
      THEN Delete(Delete(Set(Set(dbData, "contact_organizer_encrypted",
                                 Str(encryptData(emailField.s))),
                             "contact_organizer_hash", Str(hashData(emailField.s))),
                         "contact_organizer"),
                  "requester_email")
      ELSE dbData

\* window.supabase.createClient(url, key), and whether the connection test made
\* with the client passed
createClient(url, key, ok) ==
  [url |-> url, key |-> key, tested |-> IF ok THEN "passed" ELSE "failed"]

\* credentials saved together with the API key
saveCredentialsWithKey(storage, url, key, email, department) ==
  [storage EXCEPT !.credentials = <<url, key, email, department>>]

\* the three setItem calls of connectToDatabase: flexform_user_url,
\* flexform_user_email, flexform_user_department
saveCredentials(storage, url, key, email, department) ==
  [storage EXCEPT !.credentials = <<url, email, department>>]

\* connectToDatabase; ok: the connection test passed
ConnectToDatabase(ok) ==
  /\ program = "portal"
  /\ LET url == trim(inputs.url)
         key == trim(inputs.key)
         email == trim(inputs.email)
         department == trim(inputs.department)
     IN  IF url = <<>> \/ key = <<>> \/ email = <<>>
         THEN /\ message' = "Please fill in all required fields"
              /\ UNCHANGED <<isConnected, supabase, currentUser, templates, localStorage>>
         ELSE /\ supabase' = createClient(url, key, ok)
              /\ IF ok
                 THEN /\ currentUser' = [email |-> email,
                                         department |-> IF department # <<>> THEN department
                                                        ELSE <<"g","e","n","e","r","a","l">>]
                      /\ isConnected' = TRUE
                      /\ templates' = IF localStorage.flexform_templates THEN AdminTemplates
                                       ELSE DefaultTemplates
                      /\ localStorage' =
                           [saveCredentials(localStorage, url, key, email, department) EXCEPT
                              !.configs = IF localStorage.flexform_templates THEN @
                                          ELSE {DefaultTemplates[k] : k \in 1..Len(DefaultTemplates)}]
                      /\ message' = "Connected to database successfully!"
                 ELSE /\ message' = "Failed to connect to database"
                      /\ UNCHANGED <<isConnected, currentUser, templates, localStorage>>
  /\ UNCHANGED <<currentTemplate, form, store, shown>>
  /\ UNCHANGED writes
  /\ PortalFrame

\* loadSelectedTemplate; templateId: the value of the template dropdown
LoadSelectedTemplate(templateId) ==
  /\ program = "portal"
  /\ IF templateId = ""
     THEN /\ message' = "Please select a template first"
          /\ UNCHANGED <<currentTemplate, form>>
     ELSE /\ currentTemplate' = templateId
          /\ form' = renderTemplate(localStorage, templateId)
          /\ UNCHANGED message
  /\ UNCHANGED <<isConnected, supabase, currentUser, templates, localStorage, store, shown>>
  /\ UNCHANGED writes
  /\ PortalFrame

\* what the user enters into an input of the form
Entered(input) ==
  CASE input.type = "email" -> <<"p","a","t","@","l","a","b",".","o","r","g">>
    [] input.type = "date" -> <<"2","0","2","5","-","1","0","-","0","1">>
    [] input.type = "select" -> input.options[1]
    [] OTHER -> <<"S","p","i","l","l">>

\* `${this.currentTemplate.id}`: the characters of a template id
TemplateIdChars(id) ==
  CASE id = "gemba-intake" -> <<"g","e","m","b","a","-","i","n","t","a","k","e">>
    [] id = "smartsheet-gemba" -> <<"s","m","a","r","t","s","h","e","e","t","-","g","e","m","b","a">>
    [] id = "basic-contact" -> <<"b","a","s","i","c","-","c","o","n","t","a","c","t">>
    [] id = "feedback-form" -> <<"f","e","e","d","b","a","c","k","-","f","o","r","m">>
    [] id = "audit" -> <<"a","u","d","i","t">>
    [] id = "audit_5s" -> <<"a","u","d","i","t","_","5","s">>
    [] OTHER -> <<"n","u","l","l">>

\* `flexform_draft_${this.currentTemplate.id}_${this.currentUser.email}`
DraftKey(templateId, email) ==
  <<"f","l","e","x","f","o","r","m","_","d","r","a","f","t","_">> \o TemplateIdChars(templateId) \o <<"_">> \o email

\* localStorage.getItem(key) among the draft items
getItem(items, key) ==
  IF \E e \in items : e.key = key THEN (CHOOSE e \in items : e.key = key).item ELSE NoDraft

\* an item that is kept when the key already has one
setItemKeepExisting(items, key, value) ==
  IF \E e \in items : e.key = key THEN items ELSE items \cup {[key |-> key, item |-> value]}

\* localStorage.setItem(key, value): the value replaces the item of the key
setItem(items, key, value) ==
  {e \in items : e.key # key} \cup {[key |-> key, item |-> value]}

\* localStorage.removeItem(key)
removeItem(items, key) == {e \in items : e.key # key}

\* JSON.stringify({template, data: formData, savedAt: new Date().toISOString()}),
\* member by member; the clock is the fixed instant of createdAt
DraftItem(templateId, formData) ==
  [stored |-> TRUE, template |-> templateId, data |-> JSONstringify(formData),
   savedAt |-> createdAt]

\* autoSaveDraft of a page with the inputs formInputs: local storage after it
autoSaveDraft(storage, templateId, email, formInputs) ==
  IF templateId = "null" THEN storage
  ELSE [storage EXCEPT !.drafts = setItem(@, DraftKey(templateId, email),
                                          DraftItem(templateId, getFormData(formInputs)))]

\* saveDraft of a page: local storage after it and the message shown
saveDraft(storage, templateId, email, formInputs) ==
  IF templateId = "null" THEN [storage |-> storage, message |-> "No template loaded"]
  ELSE [storage |-> [storage EXCEPT !.drafts = setItem(@, DraftKey(templateId, email),
                                                       DraftItem(templateId, getFormData(formInputs)))],
        message |-> "Draft saved successfully!"]

\* removeDraft()
removeDraft(storage, templateId, email) ==
  IF templateId = "null" THEN storage
  ELSE [storage EXCEPT !.drafts = removeItem(@, DraftKey(templateId, email))]

\* a submit that drops the draft whatever became of the insert
DraftAfterInsertAlways(storage, templateId, email, ok) == removeDraft(storage, templateId, email)

\* local storage after the insert of submitForm: an error of the insert is thrown
\* to the catch, past clearForm() and removeDraft()
DraftAfterInsert(storage, templateId, email, ok) ==
  IF ok THEN removeDraft(storage, templateId, email) ELSE storage

\* the ways the model fills a form: every input, every input but the first or
\* the last, a name in an email input, nothing
Fillings(formInputs) ==
  LET full == [k \in 1..Len(formInputs) |-> Entered(formInputs[k])]
  IN  {full, [k \in 1..Len(formInputs) |-> <<>>]}
      \cup {[full EXCEPT ![k] = <<>>] : k \in {1, Len(formInputs)} \cap (1..Len(formInputs))}
      \cup {[full EXCEPT ![k] = <<"P","a","t"," ","L","e","e">>] : k \in {n \in 1..Len(formInputs) : formInputs[n].type = "email"}}

\* the user fills the form: the inputs change and the listener of
\* addFormFieldListeners calls autoSaveDraft
FillForm(values) ==
  /\ program = "portal"
  /\ form # <<>>
  /\ form' = [k \in 1..Len(form) |-> [form[k] EXCEPT !.value = values[k]]]
  /\ form' # form
  /\ writes < MaxFills
  /\ localStorage' = autoSaveDraft(localStorage, currentTemplate, currentUser.email, form')
  /\ writes' = writes + 1
  /\ UNCHANGED <<isConnected, supabase, currentUser, templates, currentTemplate, message,
                 store, shown>>
  /\ PortalFrame

InsertRetried(rows, ok) ==
  IF ok THEN << [rows |-> rows, ok |-> TRUE] >>
  ELSE << [rows |-> rows, ok |-> FALSE], [rows |-> rows, ok |-> FALSE] >>

\* the requests of submitForm: supabase.from('gemba_requests').insert([dbData]).select()
Insert(rows, ok) == << [rows |-> rows, ok |-> ok] >>

\* submitForm; ok: the insert succeeded
SubmitForm(ok) ==
  /\ program = "portal"
  /\ Len(store) < MaxSubmits
  /\ IF ~isConnected
     THEN /\ message' = "Please connect to database first"
          /\ UNCHANGED <<form, store, localStorage>>
     ELSE IF currentTemplate = "null"
     THEN /\ message' = "No template loaded"
          /\ UNCHANGED <<form, store, localStorage>>
     ELSE LET formData == getFormData(form)
              validation == validateFormData(formData, localStorage, currentTemplate)
          IN  IF validation = Thrown
              THEN /\ message' = "Uncaught TypeError"
                   /\ UNCHANGED <<form, store, localStorage>>
              ELSE IF ~validation.isValid
              THEN /\ message' = "Please fix the following errors"
                   /\ UNCHANGED <<form, store, localStorage>>
              ELSE /\ store' = store \o Insert(<<PrepareDbData(formData, currentUser, currentTemplate)>>, ok)
                   /\ localStorage' = DraftAfterInsert(localStorage, currentTemplate,
                                                       currentUser.email, ok)
                   /\ IF ok
                      THEN message' = "Form submitted successfully!" /\ form' = <<>>
                      ELSE message' = "Failed to submit form" /\ UNCHANGED form
  /\ shown' = IF message' = "Uncaught TypeError" THEN <<>> ELSE <<message'>>
  /\ UNCHANGED <<isConnected, supabase, currentUser, templates, currentTemplate>>
  /\ UNCHANGED writes
  /\ PortalFrame

\* what the user has typed into the connection inputs
CredentialInputs ==
  {[url |-> <<"h","t","t","p","s",":","/","/","x",".","s","u","p","a","b","a","s","e",".","c","o">>, key |-> <<"a","n","o","n">>, email |-> <<" ","l","e","e","@","l","a","b",".","o","r","g">>,
    department |-> department] : department \in {<<>>, <<" ","Q","u","a","l","i","t","y"," ">>, <<"Q","C">>}}
  \cup {[url |-> <<"h","t","t","p","s",":","/","/","x",".","s","u","p","a","b","a","s","e",".","c","o">>, key |-> <<>>, email |-> <<" ","l","e","e","@","l","a","b",".","o","r","g">>,
         department |-> <<"Q","C">>]}

\* local storage of the browser: empty, or with the template list of the admin
\* panel and the configuration of its template audit
StorageInputs ==
  {EmptyStorage, [EmptyStorage EXCEPT !.flexform_templates = TRUE, !.configs = {"audit"}]}

InitPortal ==
  /\ program = "portal" /\ pc = "page"
  /\ inputs \in CredentialInputs
  /\ localStorage \in StorageInputs
  /\ isConnected = FALSE /\ supabase = NoClient /\ currentUser = NoUser
  /\ templates = <<>> /\ currentTemplate = "null"
  /\ form = <<>> /\ message = "none" /\ shown = <<>>
  /\ csvExists = FALSE /\ hasCredentials = TRUE /\ csvRows = <<>> /\ connected = "none"
  /\ lineCount = 0 /\ records = <<>> /\ batchSize = DefaultBatchSize /\ importStats = ZeroStats
  /\ i = 0 /\ j = 0 /\ processedRecords = <<>> /\ uploadedCount = 0
  /\ store = <<>> /\ result = NoResult /\ exitCode = -1
  /\ apiCall = NoCall /\ apiRet = <<>>
  /\ KeysUnused /\ RequestsIdle /\ FirstRun /\ TabsUnused /\ SharePointUnused

NextPortal ==
  \/ \E ok \in BOOLEAN : ConnectToDatabase(ok)
  \/ \E templateId \in {""} \cup {templates[k] : k \in 1..Len(templates)} :
       templateId \in {""} \cup SelectedTemplates /\ LoadSelectedTemplate(templateId)
  \/ \E values \in Fillings(form) : FillForm(values)
  \/ \E ok \in BOOLEAN : SubmitForm(ok)

SpecPortal == InitPortal /\ [][NextPortal]_vars

(***************************************************************************)
(* secure-key-manager.js and the loader of the encrypted configuration:    *)
(* the calls a page can make on window.secureConfigLoader and on its       *)
(* keyManager.                                                             *)
(***************************************************************************)
KeysFrame ==
  UNCHANGED <<program, pc, csvExists, hasCredentials, csvRows, connected, lineCount, records,
              batchSize, importStats, i, j, processedRecords, uploadedCount, store, result,
              exitCode, apiCall, apiRet, portalVars, secureConfig, cryptoWorks, uploadVars, reruns,
              tabVars, sharePointVars>>

\* the length of the iv of encryptKey and decryptKey
IvBytes == 12

\* what getRandomValues can give, as far as the model draws it
IvSet == { [k \in 1..IvBytes |-> (17 * k) % 256], [k \in 1..IvBytes |-> 255] }

Passwords == { <<"p","w","1">>, <<"p","w","2">>, <<"l","e","t","m","e","i","n","!">> }

MasterPassword == <<"p","w","1">>

PlainKeys == { <<>>, <<"k">>, <<"s","r","v","-","k","e","y">> }

KeyCall(fn, arg, answer, status, value, error, prompted, alerted) ==
  [fn |-> fn, arg |-> arg, answer |-> answer, status |-> status, value |-> value,
   error |-> error, prompted |-> prompted, alerted |-> alerted]

Resolved(value) == [status |-> "resolved", value |-> value, error |-> "none"]

Rejected(error) == [status |-> "rejected", value |-> Undefined, error |-> error]

\* initialize(masterPassword): the key and the flag after the call
initialize(key, init, works, masterPassword) ==
  IF works
  THEN [encryptionKey |-> deriveKey(TextEncode(masterPassword)), initialized |-> TRUE,
        ret |-> TRUE]
  ELSE [encryptionKey |-> key, initialized |-> init, ret |-> FALSE]

\* encryptKey(plainKey) with the iv that getRandomValues gave
encryptKey(key, init, plainKey, iv) ==
  IF ~init THEN Rejected("Key manager not initialized")
  ELSE Resolved(Str(btoaBytes(iv \o AesGcmEncrypt(key, iv, TextEncode(plainKey)))))

\* decryptKey(encryptedKey)
decryptKey(key, init, encryptedKey) ==
  IF ~init THEN Rejected("Key manager not initialized")
  ELSE LET decoded(decrypted) ==
             IF ~decrypted.ok THEN Rejected("OperationError")
             ELSE Resolved(Str(TextDecode(decrypted.data)))
           opened(combined) ==
             IF ~combined.ok THEN Rejected("InvalidCharacterError")
             ELSE decoded(AesGcmDecrypt(key,
                                        SubSeq(combined.bytes, 1,
                                               Min(IvBytes, Len(combined.bytes))),
                                        SubSeq(combined.bytes, IvBytes + 1,
                                               Len(combined.bytes))))
       IN  opened(atobBytes(encryptedKey))

\* generateEncryptedConfig(plainServiceKey, masterPassword) of a fresh manager
generateEncryptedConfig(plainServiceKey, masterPassword, iv) ==
  LET config(km) ==
        [encrypted |-> TRUE,
         serviceKey |-> encryptKey(km.encryptionKey, km.initialized, plainServiceKey, iv).value.s]
  IN  config(initialize(NoKey, FALSE, TRUE, masterPassword))

\* loadEncryptedServiceKey(encryptedConfig, masterPassword): the outcome, and the
\* key manager after it
loadEncryptedServiceKey(key, init, works, encryptedConfig, masterPassword) ==
  IF ~encryptedConfig.encrypted
  THEN [encryptionKey |-> key, initialized |-> init,
        outcome |-> Resolved(Str(encryptedConfig.serviceKey))]
  ELSE LET decryptWith(km) ==
             [encryptionKey |-> km.encryptionKey, initialized |-> km.initialized,
              outcome |-> decryptKey(km.encryptionKey, km.initialized,
                                     encryptedConfig.serviceKey)]
       IN  decryptWith(initialize(key, init, works, masterPassword))

\* unlockServiceKey() when prompt() gives answer: the outcome, whether it
\* prompted and alerted, and the fields after it
unlockServiceKeyUncaught(key, init, works, cached, config, answer) ==
  IF ~config.encrypted
  THEN [encryptionKey |-> key, initialized |-> init, serviceKey |-> cached,
        outcome |-> Resolved(Str(config.serviceKey)), prompted |-> FALSE, alerted |-> FALSE]
  ELSE IF ~Truthy(answer)
  THEN [encryptionKey |-> key, initialized |-> init, serviceKey |-> cached,
        outcome |-> Rejected("Master password required"), prompted |-> TRUE, alerted |-> FALSE]
  ELSE LET after(loaded) ==
             [encryptionKey |-> loaded.encryptionKey, initialized |-> loaded.initialized,
              serviceKey |-> IF loaded.outcome.status = "resolved"
                             THEN loaded.outcome.value ELSE cached,
              outcome |-> loaded.outcome, prompted |-> TRUE, alerted |-> FALSE]
       IN  after(loadEncryptedServiceKey(key, init, works, config, answer.s))

unlockServiceKey(key, init, works, cached, config, answer) ==
  IF ~config.encrypted
  THEN [encryptionKey |-> key, initialized |-> init, serviceKey |-> cached,
        outcome |-> Resolved(Str(config.serviceKey)), prompted |-> FALSE, alerted |-> FALSE]
  ELSE IF ~Truthy(answer)
  THEN [encryptionKey |-> key, initialized |-> init, serviceKey |-> cached,
        outcome |-> Rejected("Master password required"), prompted |-> TRUE, alerted |-> TRUE]
  ELSE LET after(loaded) ==
             [encryptionKey |-> loaded.encryptionKey, initialized |-> loaded.initialized,
              serviceKey |-> IF loaded.outcome.status = "resolved"
                             THEN loaded.outcome.value ELSE cached,
              outcome |-> loaded.outcome, prompted |-> TRUE,
              alerted |-> loaded.outcome.status = "rejected"]
       IN  after(loadEncryptedServiceKey(key, init, works, config, answer.s))

\* hasServiceKey()
hasServiceKey == serviceKey # Null

KmInitialize(masterPassword) ==
  /\ program = "keys"
  /\ LET set(km) ==
           /\ encryptionKey' = km.encryptionKey /\ initialized' = km.initialized
           /\ lastCall' = KeyCall("initialize", Str(masterPassword), Undefined, "resolved",
                                  Bool(km.ret), "none", FALSE, FALSE)
     IN  set(initialize(encryptionKey, initialized, cryptoWorks, masterPassword))
  /\ UNCHANGED <<serviceKey, lastBlob>>
  /\ KeysFrame

KmEncryptKey(plainKey, iv) ==
  /\ program = "keys"
  /\ LET settled(outcome) ==
           /\ lastCall' = KeyCall("encryptKey", Str(plainKey), Undefined, outcome.status,
                                  outcome.value, outcome.error, FALSE, FALSE)
           /\ lastBlob' = IF outcome.status = "resolved"
                          THEN [made |-> TRUE, text |-> outcome.value.s, plain |-> plainKey,
                                password |-> TextDecode(encryptionKey.password)]
                          ELSE lastBlob
     IN  settled(encryptKey(encryptionKey, initialized, plainKey, iv))
  /\ UNCHANGED <<encryptionKey, initialized, serviceKey>>
  /\ KeysFrame

KmDecryptKey(encryptedKey) ==
  /\ program = "keys"
  /\ LET settled(outcome) ==
           lastCall' = KeyCall("decryptKey", Str(encryptedKey), Undefined, outcome.status,
                               outcome.value, outcome.error, FALSE, FALSE)
     IN  settled(decryptKey(encryptionKey, initialized, encryptedKey))
  /\ UNCHANGED <<encryptionKey, initialized, serviceKey, lastBlob>>
  /\ KeysFrame

UnlockServiceKey(answer) ==
  /\ program = "keys"
  /\ LET settled(u) ==
           /\ encryptionKey' = u.encryptionKey /\ initialized' = u.initialized
           /\ serviceKey' = u.serviceKey
           /\ lastCall' = KeyCall("unlockServiceKey", Undefined,
                                  IF u.prompted THEN answer ELSE Undefined, u.outcome.status,
                                  u.outcome.value, u.outcome.error, u.prompted, u.alerted)
     IN  settled(unlockServiceKey(encryptionKey, initialized, cryptoWorks, serviceKey,
                                  secureConfig, answer))
  /\ UNCHANGED lastBlob
  /\ KeysFrame

\* a getSecureConfig that unlocks whenever the service key is asked for, cached
\* or not
GetSecureConfigUncached(needsServiceKey, answer) ==
  /\ program = "keys"
  /\ IF needsServiceKey
     THEN LET settled(u) ==
                /\ encryptionKey' = u.encryptionKey /\ initialized' = u.initialized
                /\ serviceKey' = u.serviceKey
                /\ lastCall' = KeyCall("getSecureConfig", Bool(TRUE),
                                       IF u.prompted THEN answer ELSE Undefined,
                                       u.outcome.status, u.outcome.value, u.outcome.error,
                                       u.prompted, u.alerted)
          IN  settled(unlockServiceKey(encryptionKey, initialized, cryptoWorks, serviceKey,
                                       secureConfig, answer))
     ELSE /\ lastCall' = KeyCall("getSecureConfig", Bool(FALSE), Undefined,
                                 "resolved", Undefined, "none", FALSE, FALSE)
          /\ UNCHANGED <<encryptionKey, initialized, serviceKey>>
  /\ UNCHANGED lastBlob
  /\ KeysFrame

\* getSecureConfig(needsServiceKey): the value is config.supabaseServiceKey
GetSecureConfig(needsServiceKey, answer) ==
  /\ program = "keys"
  /\ IF needsServiceKey /\ ~Truthy(serviceKey)
     THEN LET settled(u) ==
                /\ encryptionKey' = u.encryptionKey /\ initialized' = u.initialized
                /\ serviceKey' = u.serviceKey
                /\ lastCall' = KeyCall("getSecureConfig", Bool(TRUE),
                                       IF u.prompted THEN answer ELSE Undefined,
                                       u.outcome.status, u.outcome.value, u.outcome.error,
                                       u.prompted, u.alerted)
          IN  settled(unlockServiceKey(encryptionKey, initialized, cryptoWorks, serviceKey,
                                       secureConfig, answer))
     ELSE /\ lastCall' = KeyCall("getSecureConfig", Bool(needsServiceKey), Undefined,
                                 "resolved", IF needsServiceKey THEN serviceKey ELSE Undefined,
                                 "none", FALSE, FALSE)
          /\ UNCHANGED <<encryptionKey, initialized, serviceKey>>
  /\ UNCHANGED lastBlob
  /\ KeysFrame

ClearServiceKey ==
  /\ program = "keys"
  /\ serviceKey' = Null
  /\ lastCall' = KeyCall("clearServiceKey", Undefined, Undefined, "resolved", Undefined,
                         "none", FALSE, FALSE)
  /\ UNCHANGED <<encryptionKey, initialized, lastBlob>>
  /\ KeysFrame

\* the blob of the configuration as generateEncryptedConfig made it, and the
\* same blob with a character replaced, cut short, and with a character that
\* is not of base64
GoodConfig == generateEncryptedConfig(<<"s","r","v","-","k","e","y">>, MasterPassword, [k \in 1..IvBytes |-> (17 * k) % 256])

TamperedBlobs ==
  LET text == GoodConfig.serviceKey
      Replaced(k, c) == [n \in 1..Len(text) |-> IF n = k THEN c ELSE text[n]]
  IN  { Replaced(k, IF text[k] = "A" THEN "B" ELSE "A") : k \in {18, Len(text) - 2} }
      \cup { SubSeq(text, 1, 8), Replaced(3, "*") }

ConfigInputs ==
  { GoodConfig, [encrypted |-> FALSE, serviceKey |-> <<"s","r","v","-","k","e","y">>] }
  \cup { [encrypted |-> TRUE, serviceKey |-> b] : b \in TamperedBlobs }

PromptAnswers == { Null, Str(<<>>) } \cup { Str(p) : p \in {MasterPassword, <<"p","w","2">>} }

InitKeys ==
  /\ program = "keys" /\ pc = "page"
  /\ secureConfig \in ConfigInputs /\ cryptoWorks \in BOOLEAN
  /\ encryptionKey = NoKey /\ initialized = FALSE /\ serviceKey = Null
  /\ lastBlob = NoBlob /\ lastCall = NoKeyCall
  /\ csvExists = FALSE /\ hasCredentials = TRUE /\ csvRows = <<>> /\ connected = "none"
  /\ lineCount = 0 /\ records = <<>> /\ batchSize = DefaultBatchSize /\ importStats = ZeroStats
  /\ i = 0 /\ j = 0 /\ processedRecords = <<>> /\ uploadedCount = 0
  /\ store = <<>> /\ result = NoResult /\ exitCode = -1
  /\ apiCall = NoCall /\ apiRet = <<>>
  /\ PortalUnused /\ RequestsIdle /\ FirstRun /\ TabsUnused /\ SharePointUnused

NextKeys ==
  \/ \E p \in Passwords : KmInitialize(p)
  \/ \E m \in PlainKeys, iv \in IvSet : KmEncryptKey(m, iv)
  \/ \E text \in {lastBlob.text, secureConfig.serviceKey} : KmDecryptKey(text)
  \/ \E answer \in PromptAnswers : UnlockServiceKey(answer)
  \/ \E needs \in BOOLEAN, answer \in PromptAnswers : GetSecureConfig(needs, answer)
  \/ ClearServiceKey

SpecKeys == InitKeys /\ [][NextKeys]_vars

(***************************************************************************)
(* Browser tabs of the portal sharing local storage, each connected as a   *)
(* user and showing a template (part_003: autoSaveDraft, saveDraft).       *)
(***************************************************************************)
TabsFrame ==
  UNCHANGED <<program, pc, csvExists, hasCredentials, csvRows, connected, lineCount, records,
              batchSize, importStats, i, j, processedRecords, uploadedCount, store, result,
              exitCode, apiCall, apiRet, inputs, isConnected, supabase, currentUser, templates,
              currentTemplate, form, message, shown, keyVars, uploadVars, reruns, sharePointVars>>

\* the tabs open in the browser
TabCount == 2

\* the inputs the user edits in a tab: the first and the last of the form
EditedInputs(formInputs) == {1, Len(formInputs)} \cap (1..Len(formInputs))

\* the 'change' event of input k of a tab: the input has the new value and the
\* listener of addFormFieldListeners calls autoSaveDraft
TabChange(tab, k, value) ==
  /\ program = "tabs"
  /\ writes < MaxDraftWrites
  /\ tabs[tab].form[k].value # value
  /\ tabs' = [tabs EXCEPT ![tab].form[k].value = value]
  /\ localStorage' = autoSaveDraft(localStorage, tabs[tab].template, tabs[tab].email,
                                   tabs'[tab].form)
  /\ lastWriter' = tab
  /\ writes' = writes + 1
  /\ TabsFrame

\* a click on Save Draft in a tab
TabSaveDraft(tab) ==
  /\ program = "tabs"
  /\ writes < MaxDraftWrites
  /\ LET saved == saveDraft(localStorage, tabs[tab].template, tabs[tab].email, tabs[tab].form)
     IN  /\ localStorage' = saved.storage
         /\ tabs' = [tabs EXCEPT ![tab].message = saved.message]
  /\ lastWriter' = tab
  /\ writes' = writes + 1
  /\ TabsFrame

\* local storage after connectToDatabase in a browser that had no template list,
\* and in one that had the list of the admin panel
ConnectedStorage ==
  {[flexform_templates |-> FALSE,
    configs |-> {DefaultTemplates[k] : k \in 1..Len(DefaultTemplates)},
    credentials |-> <<<<"h","t","t","p","s",":","/","/","x",".","s","u","p","a","b","a","s","e",".","c","o">>, <<"l","e","e","@","l","a","b",".","o","r","g">>, <<"Q","C">>>>, drafts |-> {}],
   [flexform_templates |-> TRUE, configs |-> {},
    credentials |-> <<<<"h","t","t","p","s",":","/","/","x",".","s","u","p","a","b","a","s","e",".","c","o">>, <<"l","e","e","@","l","a","b",".","o","r","g">>, <<"Q","C">>>>, drafts |-> {}]}

\* the template and the user of each tab: the same in every tab; one template and
\* two users; the two templates of the admin panel, each with a user
TabPairs ==
  {[t \in 1..TabCount |-> [template |-> id, email |-> <<"l","e","e","@","l","a","b",".","o","r","g">>]] : id \in GembaTemplates}
  \cup {[t \in 1..TabCount |-> [template |-> "gemba-intake",
                                email |-> IF t = 1 THEN <<"l","e","e","@","l","a","b",".","o","r","g">> ELSE <<"k","i","m","@","l","a","b",".","o","r","g">>]]}
  \cup {[t \in 1..TabCount |-> IF t = 1 THEN [template |-> "audit", email |-> <<"5","s","_","l","e","e","@","l","a","b",".","o","r","g">>]
                               ELSE [template |-> "audit_5s", email |-> <<"l","e","e","@","l","a","b",".","o","r","g">>]]}

\* every tab is connected and has loaded its template
InitTabs ==
  /\ program = "tabs" /\ pc = "page"
  /\ localStorage \in ConnectedStorage
  /\ \E pairs \in TabPairs :
       /\ \A t \in 1..TabCount :
            pairs[t].template \in
              (IF localStorage.flexform_templates
               THEN {AdminTemplates[k] : k \in 1..Len(AdminTemplates)}
               ELSE GembaTemplates)
       /\ tabs = [t \in 1..TabCount |->
                    [template |-> pairs[t].template, email |-> pairs[t].email,
                     form |-> renderTemplate(localStorage, pairs[t].template),
                     message |-> "none"]]
  /\ inputs = NoInputs /\ isConnected = FALSE /\ supabase = NoClient /\ currentUser = NoUser
  /\ templates = <<>> /\ currentTemplate = "null"
  /\ form = <<>> /\ message = "none" /\ shown = <<>>
  /\ lastWriter = 0 /\ writes = 0
  /\ csvExists = FALSE /\ hasCredentials = TRUE /\ csvRows = <<>> /\ connected = "none"
  /\ lineCount = 0 /\ records = <<>> /\ batchSize = DefaultBatchSize /\ importStats = ZeroStats
  /\ i = 0 /\ j = 0 /\ processedRecords = <<>> /\ uploadedCount = 0
  /\ store = <<>> /\ result = NoResult /\ exitCode = -1
  /\ apiCall = NoCall /\ apiRet = <<>>
  /\ KeysUnused /\ RequestsIdle /\ FirstRun /\ SharePointUnused

NextTabs ==
  \/ \E tab \in 1..Len(tabs) : \E k \in EditedInputs(tabs[tab].form) :
       \E value \in {<<>>, Entered(tabs[tab].form[k])} : TabChange(tab, k, value)
  \/ \E tab \in 1..Len(tabs) : TabSaveDraft(tab)

SpecTabs == InitTabs /\ [][NextTabs]_vars

(***************************************************************************)
(* SharePointConnector (part_004): connect, getListMetadata and            *)
(* disconnect, with the calls that are suspended at an await.              *)
(***************************************************************************)
SharePointFrame ==
  UNCHANGED <<program, pc, csvExists, hasCredentials, csvRows, connected, lineCount, records,
              batchSize, importStats, i, j, processedRecords, uploadedCount, store, result,
              exitCode, apiCall, apiRet, portalVars, keyVars, uploadVars, reruns, tabVars>>

\* the calls that can be suspended at the same time
MaxPending == 2

\* the hostname of an https URL: the characters after https:// up to the first
\* / or :
HostName(url) ==
  LET rest == SubSeq(url, 9, Len(url))
      ends == {k \in 1..Len(rest) : rest[k] \in {"/", ":"}}
  IN  IF ends = {} THEN rest
      ELSE SubSeq(rest, 1, (CHOOSE k \in ends : \A n \in ends : k <= n) - 1)

\* isValidSharePointUrl(url): new URL(url) parses, the protocol is https: and the
\* hostname holds one of the four names
isValidSharePointUrl(url) ==
  /\ Len(url) > 8 /\ SubSeq(url, 1, 8) = <<"h","t","t","p","s",":","/","/">>
  /\ HostName(url) # <<>>
  /\ \/ Includes(HostName(url), <<".","s","h","a","r","e","p","o","i","n","t",".","c","o","m">>)
     \/ Includes(HostName(url), <<".","s","h","a","r","e","p","o","i","n","t","-","d","f",".","c","o","m">>)
     \/ Includes(HostName(url), <<"l","o","c","a","l","h","o","s","t">>)
     \/ Includes(HostName(url), <<"1","2","7",".","0",".","0",".","1">>)

\* siteUrl.endsWith('/') ? siteUrl.slice(0, -1) : siteUrl
WithoutSlash(siteUrl) ==
  IF siteUrl # <<>> /\ siteUrl[Len(siteUrl)] = "/" THEN SubSeq(siteUrl, 1, Len(siteUrl) - 1)
  ELSE siteUrl

\* pending without its entry k
Resumed(k) == SubSeq(pending, 1, k - 1) \o SubSeq(pending, k + 1, Len(pending))

\* connect(siteUrl, token) up to await this.testConnection(); an invalid URL
\* throws into the catch
Connect(siteUrl, token) ==
  /\ program = "sharepoint"
  /\ Len(pending) < MaxPending
  /\ IF isValidSharePointUrl(siteUrl)
     THEN /\ connection' = [connection EXCEPT !.siteUrl = WithoutSlash(siteUrl),
                                              !.token = token]
          /\ pending' = Append(pending, [fn |-> "connect", listName |-> <<>>])
     ELSE /\ connection' = [connection EXCEPT !.connected = FALSE]
          /\ UNCHANGED pending
  /\ disconnected' = FALSE
  /\ UNCHANGED listCache
  /\ SharePointFrame

\* the test of a suspended connect settles; success: testResult.success
ConnectResume(k, success) ==
  /\ program = "sharepoint"
  /\ k \in 1..Len(pending) /\ pending[k].fn = "connect"
  /\ connection' = IF success
                   THEN [connection EXCEPT !.connected = TRUE, !.lastPing = Str(createdAt),
                                           !.siteId = <<"d","e","m","o","-","s","i","t","e","-","i","d","-","1","2","3","4","5">>]
                   ELSE [connection EXCEPT !.connected = FALSE]
  /\ pending' = Resumed(k)
  /\ UNCHANGED <<listCache, disconnected>>
  /\ SharePointFrame

\* getListMetadata(listName) up to its await: it throws when not connected and
\* returns the cached metadata when there is one
GetListMetadata(listName) ==
  /\ program = "sharepoint"
  /\ Len(pending) < MaxPending
  /\ pending' = IF connection.connected /\ listName \notin listCache
                THEN Append(pending, [fn |-> "getListMetadata", listName |-> listName])
                ELSE pending
  /\ pending' # pending
  /\ UNCHANGED <<connection, listCache, disconnected>>
  /\ SharePointFrame

\* the retrieval of a suspended getListMetadata settles: this.listCache.set
GetListMetadataResume(k) ==
  /\ program = "sharepoint"
  /\ k \in 1..Len(pending) /\ pending[k].fn = "getListMetadata"
  /\ listCache' = listCache \cup {pending[k].listName}
  /\ pending' = Resumed(k)
  /\ UNCHANGED <<connection, disconnected>>
  /\ SharePointFrame

\* disconnect()
Disconnect ==
  /\ program = "sharepoint"
  /\ connection' = NoConnection
  /\ listCache' = {}
  /\ disconnected' = TRUE
  /\ UNCHANGED pending
  /\ SharePointFrame

SiteUrls ==
  { <<"h","t","t","p","s",":","/","/","x",".","s","h","a","r","e","p","o","i","n","t",".","c","o","m","/","s","i","t","e","s","/","a","/">>, <<"h","t","t","p","s",":","/","/","l","o","c","a","l","h","o","s","t",":","8","0","8","0">>, <<"h","t","t","p",":","/","/","x",".","s","h","a","r","e","p","o","i","n","t",".","c","o","m">>,
    <<"x",".","s","h","a","r","e","p","o","i","n","t",".","c","o","m">> }

ListNames == { <<"G","e","m","b","a">>, <<"A","u","d","i","t","s">> }

InitSharePoint ==
  /\ program = "sharepoint" /\ pc = "page"
  /\ SharePointUnused
  /\ csvExists = FALSE /\ hasCredentials = TRUE /\ csvRows = <<>> /\ connected = "none"
  /\ lineCount = 0 /\ records = <<>> /\ batchSize = DefaultBatchSize /\ importStats = ZeroStats
  /\ i = 0 /\ j = 0 /\ processedRecords = <<>> /\ uploadedCount = 0
  /\ store = <<>> /\ result = NoResult /\ exitCode = -1
  /\ apiCall = NoCall /\ apiRet = <<>>
  /\ PortalUnused /\ KeysUnused /\ RequestsIdle /\ FirstRun /\ TabsUnused

NextSharePoint ==
  \/ \E siteUrl \in SiteUrls, token \in {<<>>, <<"t","o","k">>} : Connect(siteUrl, token)
  \/ \E k \in 1..Len(pending), success \in BOOLEAN : ConnectResume(k, success)
  \/ \E listName \in ListNames : GetListMetadata(listName)
  \/ \E k \in 1..Len(pending) : GetListMetadataResume(k)
  \/ Disconnect

SpecSharePoint == InitSharePoint /\ [][NextSharePoint]_vars
(***************************************************************************)
(* Every program of the repository.                                        *)
(***************************************************************************)
Init == InitImport \/ InitSimple \/ InitPortal \/ InitApi \/ InitKeys \/ InitTabs \/ InitSharePoint

Next == NextImport \/ NextSimple \/ NextPortal \/ NextApi \/ NextKeys \/ NextTabs \/ NextSharePoint

Spec == Init /\ [][Next]_vars

\* the two importers, whose upload loops are alike
InitUpload == InitImport \/ InitSimple

NextUpload == NextImport \/ NextSimple

SpecUpload == InitUpload /\ [][NextUpload]_vars

(***************************************************************************)
(* Properties.                                                             *)
(***************************************************************************)
\* processing this record raises a TypeError: its contact or its location is a
\* value that is not a string and not falsy (it has no includes / toUpperCase)
RaisesTypeError(record) ==
  \/ Get(record, "contact_organizer").t = "number" /\ Get(record, "contact_organizer").s # <<"0">>
  \/ Get(record, "location").t = "number" /\ Get(record, "location").s # <<"0">>

\* the records among the first n of list that satisfy Test, in order
Kept(list, n, Test(_)) == SelectSeq(SubSeq(list, 1, n), Test)

OriginalIds(list) == [k \in 1..Len(list) |-> Get(list[k], "original_id")]

\* the records processRecords has handled so far
Handled == IF pc = "processRecords" THEN Min(i + j, Len(records)) ELSE Len(records)

ProcessingOrJustDone ==
  \/ pc = "processRecords"
  \/ pc = "uploadToDatabase" /\ store = <<>>

RECURSIVE SumSizes(_, _)
SumSizes(batches, ok) ==
  IF batches = <<>> THEN 0
  ELSE (IF Head(batches).ok = ok THEN Len(Head(batches).rows) ELSE 0) + SumSizes(Tail(batches), ok)

\* C1: in processRecords every record whose processing throws adds exactly 1 to
\* importStats.errors and is left out of the output, and every record that does
\* not throw, before or after a throwing one, in the same or a later batch, is
\* processed and output: after each step the errors are the throwing records
\* handled so far and the output is the other records handled so far, in order.
C1_RowFailureDoesNotAbort ==
  ProcessingOrJustDone =>
    /\ importStats.errors = Len(Kept(records, Handled, RaisesTypeError))
    /\ OriginalIds(processedRecords)
         = OriginalIds(Kept(records, Handled, LAMBDA r : ~RaisesTypeError(r)))
    /\ importStats.processedRecords = Len(processedRecords)

\* C1 witness: a run of batches of one record each in which the first record threw
\* and the two later ones were processed
C1_Witness ==
  /\ program = "module" /\ pc = "uploadToDatabase" /\ batchSize = 1
  /\ Len(records) = 3 /\ RaisesTypeError(records[1])
  /\ ~RaisesTypeError(records[2]) /\ ~RaisesTypeError(records[3])
  /\ importStats.errors = 1 /\ Len(processedRecords) = 2

\* C4: the command-line run of import-data.js exits with 1 when the CSV file is
\* missing or the connection test fails, and with 0 whenever importData ran to
\* completion (it returned success), also when importStats.errors is not 0.
C4_ExitCodes ==
  pc = "exited" =>
    /\ (~csvExists \/ connected = "no") => exitCode = 1
    /\ result.status = "success" => exitCode = 0
    /\ (csvExists /\ connected = "yes" /\ lineCount = Len(csvRows) /\ Len(records) = Len(csvRows)
        /\ importStats.totalRecords = Len(csvRows) /\ Len(csvRows) > 0) => exitCode = 0

\* C4 witness: a completed run with errors that exited with 0
C4_Witness ==
  /\ pc = "exited" /\ exitCode = 0 /\ importStats.errors > 0 /\ result.errors > 0

MalformedDate(row) == Get(row, "When did the event occur?") = Str(<<"n","o","t","-","a","-","d","a","t","e">>)

NoContact(row) == ~Truthy(Get(row, "Contact / Organizer"))

ThreeRowScenario ==
  /\ program = "import-data" /\ Len(csvRows) = 3
  /\ \E m, c \in 1..3 : m # c /\ MalformedDate(csvRows[m]) /\ NoContact(csvRows[c])

\* C5: importing a 3-row CSV with one row with a malformed date and one row
\* without a contact gives totalRecords = 3, warnings >= 1, errors = 0 and
\* exactly 3 output records, one with a null event date and one without a
\* contact_organizer_encrypted field (errors counted before any batch upload
\* has failed).
C5_ThreeRowImport ==
  (/\ ThreeRowScenario
   /\ pc \in {"uploadToDatabase", "main_result", "exited"}
   /\ importStats.totalRecords = 3
   /\ \A k \in 1..Len(store) : store[k].ok) =>
    /\ importStats.warnings >= 1
    /\ importStats.errors = 0
    /\ Len(processedRecords) = 3
    /\ importStats.processedRecords = 3
    /\ \E k \in 1..3 : Get(processedRecords[k], "event_occurred") = Null
    /\ \E k \in 1..3 : ~Has(processedRecords[k], "contact_organizer_encrypted")
    /\ (pc = "exited" => result.status = "success" /\ result.totalRecords = 3 /\ result.errors = 0)

\* C5 witness: such an import, finished
C5_Witness ==
  /\ ThreeRowScenario /\ pc = "exited" /\ exitCode = 0
  /\ importStats.totalRecords = 3 /\ Len(processedRecords) = 3
  /\ importStats.warnings >= 1 /\ importStats.errors = 0

ApiReturned(fn) == program = "api" /\ apiCall.fn = fn /\ Len(apiRet) = Len(apiCall.args)

\* s holds keyword at some place, letters compared without regard to case
IncludesIgnoringCase(s, keyword) ==
  \E at \in 0..(Len(s) - Len(keyword)) :
    \A k \in 1..Len(keyword) :
      \/ s[at + k] = keyword[k]
      \/ IsLowerLetter(s[at + k]) /\ Ord(s[at + k]) - 32 = Ord(keyword[k])

DepartmentKeywords == << <<"N","Y","A">>, <<"F","O","R","B","E","S">>, <<"Q","C">>, <<"M","I","C","R","O">> >>

DepartmentNames == << <<"N","Y","A">>, <<"F","O","R","B","E","S">>, <<"Q","C">>, <<"M","I","C","R","O","B","I","O","L","O","G","Y">> >>

\* the department of the first keyword, in the fixed order, that occurs in location
FirstKeywordDepartment(location) ==
  IF location.t # "string" \/ location.s = <<>> THEN <<"g","e","n","e","r","a","l">>
  ELSE LET hits == {k \in 1..4 : IncludesIgnoringCase(location.s, DepartmentKeywords[k])}
       IN  IF hits = {} THEN <<"g","e","n","e","r","a","l">>
           ELSE DepartmentNames[CHOOSE k \in hits : \A h \in hits : k <= h]

\* C8: extractDepartment(location) is the department of the first keyword, in the
\* order NYA, FORBES, QC, MICRO (MICROBIOLOGY), that occurs in the location as a
\* case-insensitive substring, and general when none occurs or the location is
\* empty or missing; "NYA Building 4" gives NYA and "Annex" gives general.
C8_ExtractDepartment ==
  ApiReturned("extractDepartment") =>
    /\ apiRet[1] = Str(FirstKeywordDepartment(apiCall.args[1]))
    /\ apiCall.args[1] = Str(<<"N","Y","A"," ","B","u","i","l","d","i","n","g"," ","4">>) => apiRet[1] = Str(<<"N","Y","A">>)
    /\ apiCall.args[1] = Str(<<"A","n","n","e","x">>) => apiRet[1] = Str(<<"g","e","n","e","r","a","l">>)

\* C8 witness: a location holding a later keyword before an earlier one, in lower
\* case, classified by the earlier keyword of the order
C8_Witness ==
  /\ ApiReturned("extractDepartment")
  /\ apiCall.args[1] = Str(<<"q","c","F","o","r","b","e","s">>) /\ apiRet[1] = Str(<<"F","O","R","B","E","S">>)

IsTableMonth(month) == \E k \in 1..12 : MonthNames[k] = month

MonthNumber(month) == CHOOSE k \in 1..12 : MonthNames[k] = month

DayNumber(s) == 10 * DigitVal(s[1]) + DigitVal(s[2])

\* a DDMMMYY string whose month is of the table
IsTableDate(v) == v.t = "string" /\ IsDDMMMYY(v.s) /\ IsTableMonth(SubSeq(v.s, 3, 5))

\* its rewriting 20YY-MM-DD
Rewritten(s) ==
  <<"2","0">> \o SubSeq(s, 6, 7) \o <<"-">> \o TwoDigits(MonthNumber(SubSeq(s, 3, 5))) \o <<"-">> \o SubSeq(s, 1, 2)

\* the day DD exists in month MMM of year 20YY
DayExists(s) ==
  /\ DayNumber(s) >= 1
  /\ DayNumber(s) <= DaysInMonth(2000 + DayNumber(SubSeq(s, 6, 7)), MonthNumber(SubSeq(s, 3, 5)))

\* a non-blank string of the inputs that is no date: a DDMMMYY string with a month
\* outside the table or a day outside 01..31, or any other string that is not a
\* YYYY-MM-DD date with a month 01..12 and a day 01..31
FailsToParse(v) ==
  /\ v.t = "string" /\ trim(v.s) # <<>>
  /\ LET s == trim(v.s)
     IN  IF IsDDMMMYY(s)
         THEN ~IsTableMonth(SubSeq(s, 3, 5)) \/ DayNumber(s) < 1 \/ DayNumber(s) > 31
         ELSE ~(/\ IsIsoDateShape(s)
                /\ DayNumber(SubSeq(s, 6, 7)) \in 1..12
                /\ DayNumber(SubSeq(s, 9, 10)) \in 1..31)

HoldsSensitiveKeyword(record) ==
  LET content == toLowerCase(JSONstringify(record))
  IN  Includes(content, <<"c","o","n","f","i","d","e","n","t","i","a","l">>) \/ Includes(content, <<"s","e","n","s","i","t","i","v","e">>)

\* C7: classifyRecord gives confidential to a record whose serialized content
\* holds "confidential" or "sensitive" in any case, and internal to every other
\* record.
C7_ClassifyRecord ==
  ApiReturned("classifyRecord") =>
    apiRet[1] = IF HoldsSensitiveKeyword(apiCall.args[1]) THEN Str(<<"c","o","n","f","i","d","e","n","t","i","a","l">>)
                ELSE Str(<<"i","n","t","e","r","n","a","l">>)

\* the two records have the same properties with the same values
SameProperties(r, s) == {r[k] : k \in 1..Len(r)} = {s[k] : k \in 1..Len(s)}

\* the two records have the same property names and differ in a value
DifferInValue(r, s) ==
  /\ {r[k].k : k \in 1..Len(r)} = {s[k].k : k \in 1..Len(s)}
  /\ \E k \in 1..Len(r) : Get(s, r[k].k) # r[k].v

\* C10: the data hash of generateDataHash is the same for two records with the
\* same properties in a different order and differs for two records that differ
\* in the value of a field.
C10_DataHash ==
  ApiReturned("generateDataHash") =>
    /\ SameProperties(apiCall.args[1], apiCall.args[2]) => apiRet[1] = apiRet[2]
    /\ DifferInValue(apiCall.args[1], apiCall.args[2]) => apiRet[1] # apiRet[2]

\* every record handed to the store so far
RECURSIVE Transmitted(_)
Transmitted(batches) ==
  IF batches = <<>> THEN <<>> ELSE Head(batches).rows \o Transmitted(Tail(batches))

\* name ends with suffix
EndsWith(name, suffix) ==
  Len(name) >= Len(suffix) /\ SubSeq(name, Len(name) - Len(suffix) + 1, Len(name)) = suffix

HasSecureSuffix(key) ==
  EndsWith(KeyChars[key], <<"_","e","n","c","r","y","p","t","e","d">>) \/ EndsWith(KeyChars[key], <<"_","h","a","s","h">>)

\* the contact values of the inputs: the contact cells of the rows, the contacts of
\* the caller's records and what is entered into an email input of the portal
ContactValues ==
  {Get(row, "Contact / Organizer") : row \in RowSet}
  \cup {Get(record, "contact_organizer") : record \in ModuleRecordSet}
  \cup {Str(<<"p","a","t","@","l","a","b",".","o","r","g">>)}

\* record holds, under a name without the _encrypted or _hash suffix, a contact
\* value with an @
HoldsPlainContact(record) ==
  \E k \in 1..Len(record) :
    /\ ~HasSecureSuffix(record[k].k)
    /\ record[k].v \in ContactValues
    /\ IsStr(record[k].v) /\ Includes(record[k].v.s, <<"@">>)

\* C2: no record transmitted to the store, by import-data.js, by simple-import.js
\* or by submitForm, holds a contact value containing '@' under a field whose
\* name lacks the _encrypted or _hash suffix.
C2_NoPlainContact ==
  \A k \in 1..Len(Transmitted(store)) : ~HoldsPlainContact(Transmitted(store)[k])

\* the list the running upload loop walks
UploadList == IF program = "simple-import" THEN records ELSE processedRecords

LoopBatchSize == IF program = "simple-import" THEN SimpleBatchSize ELSE UploadBatchSize

InUploadLoop == pc \in {"uploadToDatabase", "insert"}

AfterUploadLoop ==
  \/ program \in {"import-data", "module"} /\ pc \in {"main_result", "returned", "exited"}
       /\ (program = "import-data" => result.status = "success")
  \/ program = "simple-import" /\ pc = "returned" /\ connected = "yes"

\* C3: in the upload loops of uploadToDatabase and simple-import.js the count of
\* uploaded records is at every moment the total size of the batches that
\* succeeded so far (a failed batch takes nothing back), the batches attempted so
\* far are the list's batches in order, all of them once the loop is over, and in
\* uploadToDatabase importStats.errors has grown by the sizes of the failed batches.
C3_BatchFailureKeepsEarlier ==
  (program \in {"import-data", "module", "simple-import"} /\ (InUploadLoop \/ AfterUploadLoop)) =>
    /\ uploadedCount = SumSizes(store, TRUE)
    /\ Transmitted(store) = SubSeq(UploadList, 1, IF InUploadLoop THEN Min(i, Len(UploadList))
                                                  ELSE Len(UploadList))
    /\ \A k \in 1..Len(store) :
         Len(store[k].rows) = Min(LoopBatchSize, Len(UploadList) - (k - 1) * LoopBatchSize)
    /\ program # "simple-import" =>
         importStats.errors = (Len(records) - Len(processedRecords)) + SumSizes(store, FALSE)

\* C3 witness: a failed batch of uploadToDatabase followed by a batch that succeeded
C3_Witness ==
  /\ program = "import-data" /\ pc = "uploadToDatabase"
  /\ Len(store) = 2 /\ ~store[1].ok /\ store[2].ok
  /\ importStats.errors = UploadBatchSize /\ uploadedCount = 1

\* the closed set of departments
ClosedDepartments == {Str(DepartmentNames[k]) : k \in 1..Len(DepartmentNames)} \cup {Str(<<"g","e","n","e","r","a","l">>)}

\* the records prepared for the store by processRecords and by submitForm
Prepared ==
  IF program \in {"import-data", "module"} THEN processedRecords
  ELSE IF program = "portal" THEN Transmitted(store)
  ELSE <<>>

\* C6 as stated: every record prepared for the store by processRecords and by
\* submitForm has a department of the closed set NYA, FORBES, QC, MICROBIOLOGY,
\* general.
C6_AsStated ==
  \A k \in 1..Len(Prepared) : Get(Prepared[k], "department") \in ClosedDepartments

\* the department typed into the connection form, trimmed, general when blank
TypedDepartment == IF trim(inputs.department) = <<>> THEN <<"g","e","n","e","r","a","l">> ELSE trim(inputs.department)

\* C6: every record prepared by processRecords has a department of the closed set
\* NYA, FORBES, QC, MICROBIOLOGY, general; every record prepared by submitForm has
\* the department the user typed when connecting, trimmed, or general when that
\* was blank.
C6_Departments ==
  \A k \in 1..Len(Prepared) :
    IF program = "portal"
    THEN Get(Prepared[k], "department") = Str(TypedDepartment)
    ELSE Get(Prepared[k], "department") \in ClosedDepartments

\* C6 witness: submitForm has sent a record of the department Quality
C6_Witness ==
  /\ program = "portal" /\ Len(store) = 1
  /\ Get(store[1].rows[1], "department") = Str(<<"Q","u","a","l","i","t","y">>)
  /\ inputs.department = <<" ","Q","u","a","l","i","t","y"," ">>

(***************************************************************************)
(* Claims about the key manager and the loader of the configuration.       *)
(***************************************************************************)
\* the last call was decryptKey on the blob encryptKey returned last
DecryptedLastBlob ==
  /\ lastCall.fn = "decryptKey" /\ lastBlob.made /\ lastCall.arg = Str(lastBlob.text)

\* the password the key manager was initialized with last
CurrentPassword == TextDecode(encryptionKey.password)

\* C11: decryptKey on the blob that encryptKey(m) returned after initialize(p1)
\* returns m when the key manager is initialized with p1, and is rejected with
\* an error, returning no value, when it is initialized with another password.
C11_RoundTrip ==
  DecryptedLastBlob =>
    IF CurrentPassword = lastBlob.password
    THEN lastCall.status = "resolved" /\ lastCall.value = Str(lastBlob.plain)
    ELSE lastCall.status = "rejected" /\ lastCall.value = Undefined
         /\ lastCall.error = "OperationError"

C11_Witness ==
  /\ DecryptedLastBlob /\ lastBlob.plain = <<"s","r","v","-","k","e","y">>
  /\ lastBlob.password = <<"p","w","1">> /\ CurrentPassword = <<"l","e","t","m","e","i","n","!">>
  /\ lastCall.status = "rejected"

\* the step is a call of the loader that prompted and whose decryption cannot
\* succeed: the answer is not the master password, or the blob is not the one
\* that was generated
DecryptionFails(call) ==
  /\ call.fn \in {"unlockServiceKey", "getSecureConfig"}
  /\ call.prompted /\ Truthy(call.answer) /\ secureConfig.encrypted
  /\ call.answer # Str(MasterPassword) \/ secureConfig # GoodConfig

\* C12: a call of unlockServiceKey whose decryption fails (wrong master password
\* or tampered blob) alerts the user and is rejected, leaves this.serviceKey as
\* it was (so hasServiceKey() stays false when it was false), and a call of
\* getSecureConfig(true) that follows it with no key cached prompts again.
C12_FailedUnlock ==
  [][ /\ DecryptionFails(lastCall') =>
           /\ lastCall'.status = "rejected" /\ lastCall'.alerted
           /\ serviceKey' = serviceKey
           /\ (~hasServiceKey => ~hasServiceKey')
      /\ ( /\ DecryptionFails(lastCall) /\ ~hasServiceKey
           /\ lastCall'.fn = "getSecureConfig" /\ lastCall'.arg = Bool(TRUE) )
         => lastCall'.prompted ]_vars

C12_Witness ==
  /\ lastCall.fn = "getSecureConfig" /\ DecryptionFails(lastCall)
  /\ secureConfig = GoodConfig /\ lastCall.answer = Str(<<"p","w","2">>)
  /\ lastCall.status = "rejected" /\ lastCall.error = "OperationError" /\ lastCall.alerted
  /\ ~hasServiceKey


(***************************************************************************)
(* The prompts of getSecureConfig.                                         *)
(***************************************************************************)
\* the step is a call of getSecureConfig with this argument
Asked(needsServiceKey) ==
  lastCall'.fn = "getSecureConfig" /\ lastCall'.arg = Bool(needsServiceKey)

\* what holds of every call of getSecureConfig and clearServiceKey
PromptsWhenUncached ==
  /\ (lastCall'.fn = "getSecureConfig" /\ lastCall'.prompted) => (Asked(TRUE) /\ ~hasServiceKey)
  /\ Asked(FALSE) =>
       /\ ~lastCall'.prompted /\ lastCall'.status = "resolved" /\ lastCall'.value = Undefined
       /\ serviceKey' = serviceKey
  /\ (Asked(TRUE) /\ hasServiceKey) =>
       /\ ~lastCall'.prompted /\ lastCall'.status = "resolved" /\ lastCall'.value = serviceKey
       /\ serviceKey' = serviceKey
  /\ lastCall'.fn = "clearServiceKey" => serviceKey' = Null

\* a successful unlock caches the key, and the call after clearServiceKey prompts
CachesAndPromptsAgain ==
  /\ (Asked(TRUE) /\ ~hasServiceKey /\ lastCall'.status = "resolved") =>
       serviceKey' = lastCall'.value
  /\ (Asked(TRUE) /\ lastCall.fn = "clearServiceKey") => lastCall'.prompted

\* C30 as stated: getSecureConfig prompts only when called with true while no key
\* is cached; getSecureConfig(false) never prompts and returns no service key; a
\* successful unlock caches the key and later getSecureConfig(true) return it
\* without prompting; after clearServiceKey() no key is cached and the next
\* getSecureConfig(true) prompts again
C30_AsStated ==
  [][(program = "keys") => (PromptsWhenUncached /\ CachesAndPromptsAgain)]_vars

\* C30: the same, with the caching of a successful unlock and the prompt after
\* clearServiceKey() only for a configuration whose service key is encrypted; for
\* one that is not, getSecureConfig(true) returns the configured key without
\* prompting and caches nothing
C30_PromptsOnlyUncached ==
  [][(program = "keys") =>
       /\ PromptsWhenUncached
       /\ secureConfig.encrypted => CachesAndPromptsAgain
       /\ (~secureConfig.encrypted /\ Asked(TRUE)) =>
            /\ ~lastCall'.prompted /\ lastCall'.value = Str(secureConfig.serviceKey)
            /\ serviceKey' = serviceKey]_vars

\* C30 witness: the key of an encrypted configuration was unlocked and cached, and
\* a later getSecureConfig(true) returned it without prompting
C30_Witness ==
  /\ program = "keys" /\ secureConfig.encrypted /\ hasServiceKey
  /\ lastCall.fn = "getSecureConfig" /\ lastCall.arg = Bool(TRUE)
  /\ ~lastCall.prompted /\ lastCall.value = serviceKey
(***************************************************************************)
(* Claims about the forms of the portal.                                   *)
(***************************************************************************)
SubmitMessages ==
  { "Please connect to database first", "No template loaded", "Uncaught TypeError",
    "Please fix the following errors", "Form submitted successfully!", "Failed to submit form" }

\* the step is a call of submitForm that showed a message or handed a row to the store
SubmitStep == program = "portal" /\ message' \in SubmitMessages /\ (message' # message \/ store' # store)

\* the form of the current template is on the page
FormRendered ==
  /\ program = "portal" /\ isConnected /\ currentTemplate # "null"
  /\ form # <<>> /\ Len(form) = Len(TemplateFields(localStorage, currentTemplate))

\* the fields of the schema that the values on the page violate: a required
\* field left blank, an email field with a value that is no address
ViolatedFields ==
  LET fields == TemplateFields(localStorage, currentTemplate)
  IN  { k \in 1..Len(fields) :
          \/ fields[k].required /\ trim(form[k].value) = <<>>
          \/ fields[k].type = "email" /\ form[k].value # <<>> /\ ~EmailRegexTest(form[k].value) }

\* C13: when a required field is blank or an email field fails the pattern,
\* submitForm hands no row to the store, and the errors of validateFormData hold
\* an entry for every violated field.
C13_InvalidFormNotInserted ==
  [][ (SubmitStep /\ FormRendered /\ ViolatedFields # {}) =>
        /\ store' = store
        /\ LET fields == TemplateFields(localStorage, currentTemplate)
               validation == validateFormData(getFormData(form), localStorage, currentTemplate)
           IN  /\ validation # Thrown
               /\ \A k \in ViolatedFields :
                    \E n \in 1..Len(validation.errors) : validation.errors[n].field = fields[k].name
    ]_vars

\* the user has entered a valid value into every input of the rendered form
FullyEntered == FormRendered /\ \A k \in 1..Len(form) : form[k].value = Entered(form[k])

\* C14: for a rendered schema with a valid value entered into every input,
\* getFormData returns a mapping with one entry for every field of the schema,
\* holding exactly the value entered for it.
C14_FormRoundTrip ==
  FullyEntered =>
    LET fields == TemplateFields(localStorage, currentTemplate)
        formData == getFormData(form)
    IN  /\ Len(Keys(formData)) = Len(fields)
        /\ \A k \in 1..Len(fields) : Get(formData, fields[k].name) = Str(form[k].value)


(***************************************************************************)
(* submitForm, the form and the stored draft.                              *)
(***************************************************************************)
\* the draft stored for the current template and user
CurrentDraft == getItem(localStorage.drafts, DraftKey(currentTemplate, currentUser.email))

\* the step clears the form, or removes a stored draft
ClearsOrRemoves ==
  \/ form # <<>> /\ form' = <<>>
  \/ \E e \in localStorage.drafts : \A f \in localStorage'.drafts : f.key # e.key

\* the step made the insert of submitForm, with this outcome
Inserted(ok) == Len(store') = Len(store) + 1 /\ store'[Len(store')].ok = ok

\* the step is a call of submitForm that was refused before its insert
Refused ==
  /\ store' = store /\ message' # message
  /\ message' \in {"Please connect to database first", "No template loaded",
                   "Please fix the following errors", "Uncaught TypeError"}

SubmitKeepsDraft ==
  /\ ClearsOrRemoves => Inserted(TRUE)
  /\ (Inserted(FALSE) \/ Refused) => (form' = form /\ localStorage' = localStorage)

\* C25: the form is cleared and a stored draft removed only by a submitForm whose
\* insert succeeded; a submitForm that was refused (not connected, no template,
\* validation failed) or whose insert failed leaves the form and local storage
\* as they were
C25_DraftKeptUntilInserted == [][(program = "portal") => SubmitKeepsDraft]_vars

\* C25 witness: a draft of the filled form is stored, the insert failed, and the
\* form and the draft are still there
C25_Witness ==
  /\ program = "portal" /\ store # <<>> /\ ~store[Len(store)].ok
  /\ message = "Failed to submit form"
  /\ form # <<>> /\ CurrentDraft.stored
  /\ CurrentDraft = DraftItem(currentTemplate, getFormData(form))

(***************************************************************************)
(* The columns submitForm sets itself.                                     *)
(***************************************************************************)
\* the rows handed to the store by submitForm
InsertedRows == {store[k].rows[1] : k \in 1..Len(store)}

\* C28: every record submitForm inserts has created_by equal to the e-mail of the
\* connected user, department equal to the department of the session and
\* security_classification internal, whatever the fields of the form are named
\* and hold
C28_FixedColumns ==
  program = "portal" =>
    \A row \in InsertedRows :
      /\ Get(row, "created_by") = Str(currentUser.email)
      /\ Get(row, "department") = Str(currentUser.department)
      /\ Get(row, "security_classification") = Str(<<"i","n","t","e","r","n","a","l">>)

\* C28 witness: a form with inputs named created_by and security_classification,
\* holding a text and public, was submitted (the insert failed, so the form is
\* still shown), and the record has the user's e-mail and internal
C28_Witness ==
  /\ program = "portal" /\ currentTemplate = "audit" /\ store # <<>> /\ form # <<>>
  /\ \E n \in 1..Len(form) : form[n].name = "created_by" /\ form[n].value = <<"S","p","i","l","l">>
  /\ \E n \in 1..Len(form) :
       form[n].name = "security_classification" /\ form[n].value = <<"p","u","b","l","i","c">>
  /\ Get(store[Len(store)].rows[1], "created_by") = Str(currentUser.email)
  /\ Get(store[Len(store)].rows[1], "security_classification") = Str(<<"i","n","t","e","r","n","a","l">>)
(***************************************************************************)
(* Claims about the exports.                                               *)
(***************************************************************************)
\* a reader of RFC 4180 text (records ended by LF or CRLF, the last one with or
\* without it), field by field from position p: ok is FALSE when the text is
\* not of the grammar
RECURSIVE CsvParse(_, _, _, _)
CsvParse(text, p, row, rows) ==
  LET n == Len(text)
      quoted == p <= n /\ text[p] = "\""
      Quotes(a, b) == Cardinality({ k \in a..b : text[k] = "\"" })
      closing == { q \in (p + 1)..n : /\ text[q] = "\"" /\ Quotes(p + 1, q) % 2 = 1
                                      /\ (q = n \/ text[q + 1] # "\"") }
      close == CHOOSE q \in closing : \A r \in closing : q <= r
      ends == { e \in p..n : text[e] \in {",", "\n", "\r"} }
      end == IF quoted THEN close + 1
             ELSE IF ends = {} THEN n + 1 ELSE CHOOSE e \in ends : \A r \in ends : e <= r
      kept == IF quoted
              THEN { k \in (p + 1)..(close - 1) : text[k] # "\"" \/ Quotes(p + 1, k) % 2 = 0 }
              ELSE p..(end - 1)
      field == [m \in 1..Cardinality(kept) |->
                  text[CHOOSE k \in kept : Cardinality({ r \in kept : r < k }) = m - 1]]
      crlf == end < n /\ text[end] = "\r" /\ text[end + 1] = "\n"
      bad == [ok |-> FALSE, rows |-> rows]
  IN  IF p > n THEN [ok |-> TRUE, rows |-> IF row = <<>> THEN rows ELSE Append(rows, row)]
      ELSE IF quoted /\ closing = {} THEN bad
      ELSE IF ~quoted /\ \E k \in p..(end - 1) : text[k] = "\"" THEN bad
      ELSE IF end > n THEN [ok |-> TRUE, rows |-> Append(rows, Append(row, field))]
      ELSE IF text[end] = "," THEN
             (IF end = n THEN [ok |-> TRUE, rows |-> Append(rows, Append(Append(row, field), <<>>))]
              ELSE CsvParse(text, end + 1, Append(row, field), rows))
      ELSE IF text[end] = "\n" THEN CsvParse(text, end + 1, <<>>, Append(rows, Append(row, field)))
      ELSE IF crlf THEN CsvParse(text, end + 2, <<>>, Append(rows, Append(row, field)))
      ELSE bad

ParsedCsv(text) == CsvParse(text, 1, <<>>, <<>>)

ExportReturned(fn) == program = "api" /\ apiCall.fn = fn /\ Len(apiRet) = 1

ExportedData == apiCall.args[1]

SensitiveName(name) ==
  Includes(name, <<"e","n","c","r","y","p","t","e","d">>) \/ Includes(name, <<"h","a","s","h">>) \/ name = <<"a","u","d","i","t","_","l","o","g">>

\* the column names of the CSV text and of the Excel rows returned
CsvColumns == LET header == ParsedCsv(apiRet[1].s).rows[1]
              IN  { header[c] : c \in 1..Len(header) }

ExcelColumns ==
  UNION { { apiRet[1][r][c].k : c \in 1..Len(apiRet[1][r]) } : r \in 1..Len(apiRet[1]) }

\* C15 as stated: neither export emits a column whose name contains encrypted
\* or hash or is audit_log.
C15_AsStated ==
  /\ ExportReturned("exportToCSV") => \A name \in CsvColumns : ~SensitiveName(name)
  /\ ExportReturned("exportToExcel") => \A name \in ExcelColumns : ~SensitiveName(name)

\* C15: the Excel export emits no column whose name contains encrypted or hash
\* or is audit_log; the CSV export emits none of contact_organizer_encrypted,
\* contact_organizer_hash, data_hash and audit_log.
C15_Exports ==
  /\ ExportReturned("exportToCSV") =>
       \A name \in CsvColumns :
          name \notin { <<"c","o","n","t","a","c","t","_","o","r","g","a","n","i","z","e","r","_","e","n","c","r","y","p","t","e","d">>, <<"c","o","n","t","a","c","t","_","o","r","g","a","n","i","z","e","r","_","h","a","s","h">>,
                        <<"d","a","t","a","_","h","a","s","h">>, <<"a","u","d","i","t","_","l","o","g">> }
  /\ ExportReturned("exportToExcel") => \A name \in ExcelColumns : ~SensitiveName(name)

C15_Witness ==
  /\ ExportReturned("exportToCSV") /\ ExportedData = << TableRecord(Str(<<"S","p","i","l","l">>)) >>
  /\ CsvColumns = { <<"i","d">>, <<"s","h","o","r","t","_","d","e","s","c","r","i","p","t","i","o","n">>, <<"l","o","c","a","t","i","o","n">>, <<"d","e","p","a","r","t","m","e","n","t">> }

\* the text of a value in a cell: String(value || '')
CellText(value) == IF Truthy(value) THEN value.s ELSE <<>>

\* the properties of the first record that are columns of the CSV
CsvKeys == SelectSeq(Keys(ExportedData[1]), LAMBDA key : ~SensitiveName(KeyChars[key]))

C17_PdfWithinPage ==
  ExportReturned("exportToPDF") => \A n \in 1..Len(apiRet[1]) : apiRet[1][n].y <= pageHeight

(***************************************************************************)
(* Claims about the requests to the store.                                 *)
(***************************************************************************)
\* C18: in the upload loops at most one batch request is in flight at any time,
\* a batch is requested only when the requests of all batches before it have
\* settled (resolved, or rejected and recorded), and the batches are requested
\* in the order of the input.
C18_OneBatchInFlight ==
  program \in {"import-data", "module", "simple-import"} =>
    /\ Len(inFlight) <= 1
    /\ Len(store) = Len(issued) - Len(inFlight)
    /\ \A k \in 1..Len(issued) : issued[k] = (k - 1) * LoopBatchSize
    /\ \A k \in 1..Len(inFlight) : inFlight[k] = issued[Len(issued)]

\* C18 witness: the second batch of a file of 51 rows is in flight after the
\* first one failed
C18_Witness ==
  /\ program = "simple-import" /\ Len(records) = SimpleBatchSize + 1
  /\ issued = <<0, SimpleBatchSize>> /\ inFlight = <<SimpleBatchSize>>
  /\ Len(store) = 1 /\ ~store[1].ok

\* C19: a call of submitForm makes at most one insert request; when the request
\* fails it is not made again, one error message is shown, and the form stays as
\* it was.
C19_SingleInsert ==
  [][ program = "portal" =>
        /\ Len(store') <= Len(store) + 1
        /\ (Len(store') > Len(store) /\ ~store'[Len(store) + 1].ok) =>
             /\ Len(store') = Len(store) + 1
             /\ shown' = <<"Failed to submit form">> /\ message' = "Failed to submit form"
             /\ form' = form
    ]_vars

\* C19 witness: a submit whose insert request failed
C19_Witness ==
  /\ program = "portal" /\ Len(store) = 1 /\ ~store[1].ok
  /\ shown = <<"Failed to submit form">> /\ form # <<>>

(***************************************************************************)
(* Drafts of the tabs.                                                     *)
(***************************************************************************)
\* the draft key of a tab, the draft stored for it, and the draft the tab would
\* store from the form it shows
KeyOfTab(tab) == DraftKey(tabs[tab].template, tabs[tab].email)

StoredDraftOf(tab) == getItem(localStorage.drafts, KeyOfTab(tab))

DraftOfTab(tab) == DraftItem(tabs[tab].template, getFormData(tabs[tab].form))

SamePair(a, b) == tabs[a].template = tabs[b].template /\ tabs[a].email = tabs[b].email

OneUserOneTemplate == \A a, b \in 1..Len(tabs) : SamePair(a, b)

\* C20: with two tabs of one user and one template, the stored draft is whole
\* the draft of the tab that wrote last (nothing is stored before the first
\* write, nothing of the other tab's data is merged in), and no tab has been
\* shown an error
C20_LastWriterWins ==
  (program = "tabs" /\ OneUserOneTemplate) =>
    /\ lastWriter = 0 => localStorage.drafts = {}
    /\ lastWriter # 0 => StoredDraftOf(lastWriter) = DraftOfTab(lastWriter)
    /\ \A tab \in 1..Len(tabs) : tabs[tab].message \in {"none", "Draft saved successfully!"}

\* C20 witness: tab 1 stored a draft with a value entered in a field that is
\* empty in tab 2, then tab 2 wrote: the stored draft is that of tab 2 and has
\* nothing of tab 1's value
C20_Witness ==
  /\ program = "tabs" /\ OneUserOneTemplate /\ writes >= 2 /\ lastWriter = 2
  /\ LET mine == getFormData(tabs[1].form)
         theirs == getFormData(tabs[2].form)
     IN  \E p \in 1..Len(mine) :
           mine[p].v # Str(<<>>) /\ Get(theirs, mine[p].k) = Str(<<>>)
  /\ StoredDraftOf(2) = DraftOfTab(2) /\ StoredDraftOf(2) # DraftOfTab(1)

\* a write of tab w leaves the stored draft of tab o as it was
DraftKept(o) == getItem(localStorage'.drafts, KeyOfTab(o)) = StoredDraftOf(o)

OthersKept ==
  \A o \in 1..Len(tabs) : (lastWriter' # 0 /\ ~SamePair(o, lastWriter')) => DraftKept(o)

\* C26: a write of a draft by a tab leaves the stored draft of every tab with
\* another (template id, user email) pair unchanged
C26_OtherDraftsUnchanged == [][(program = "tabs") => OthersKept]_vars

(***************************************************************************)
(* Claims about a run of importData.                                       *)
(***************************************************************************)
\* importData has started to read, process or upload
WorkStarted ==
  \/ pc \in {"readCSVFile", "processRecords", "uploadToDatabase"}
  \/ lineCount > 0 \/ records # <<>> \/ processedRecords # <<>>
  \/ store # <<>> \/ issued # <<>>

\* C21: in importData the CSV is read, records are processed and batches are
\* uploaded only after the credentials check and the connection test have both
\* succeeded; when either has failed, no row is read, no batch is uploaded and
\* the result is { success: false }.
C21_ChecksBeforeWork ==
  program = "import-data" =>
    /\ WorkStarted => hasCredentials /\ connected = "yes"
    /\ (pc \in {"main_result", "exited"} /\ csvExists /\ (~hasCredentials \/ connected = "no"))
         => /\ result.status = "failure"
            /\ ~WorkStarted

\* C21 witness: a run on a file with rows whose connection test failed has
\* ended with failure and without reading
C21_Witness ==
  /\ program = "import-data" /\ pc = "exited" /\ csvRows # <<>>
  /\ hasCredentials /\ connected = "no"
  /\ result.status = "failure" /\ lineCount = 0 /\ store = <<>> /\ exitCode = 1

\* what processRecords pushes for a record: its secure record, nothing when a
\* call threw
Pushed(record) ==
  LET pushed(secure) == IF secure = Thrown THEN <<>> ELSE <<secure>>
  IN  pushed(SecureRecord(record, 0).ret)

\* the records one pass over list pushes, in the order of list
RECURSIVE SecuredInOrder(_)
SecuredInOrder(list) ==
  IF list = <<>> THEN <<>> ELSE Pushed(Head(list)) \o SecuredInOrder(Tail(list))

\* the records processRecords has handled so far: the offset of the batch and
\* the records handled of it, all records once the offset is past the last
Position == Min(i + j, Len(records))

\* a step of processRecords: it starts with no output at the first record,
\* handles the record that follows the ones handled so far and appends what one
\* pass pushes for it, and returns only when all records are handled
InOrderStep ==
  /\ (pc # "processRecords" /\ pc' = "processRecords")
       => (Position' = 0 /\ processedRecords' = <<>>)
  /\ (pc = "processRecords" /\ pc' = "processRecords")
       => ( /\ Position < Len(records) /\ Position' = Position + 1
            /\ records' = records
            /\ processedRecords' = processedRecords \o Pushed(records[Position + 1]) )
  /\ (pc = "processRecords" /\ pc' # "processRecords")
       => (Position >= Len(records) /\ processedRecords' = processedRecords)

\* C22: processRecords outputs the records it processed successfully in input
\* order, each input record at most once, and the same output for every batch
\* size: whatever the batch size, every step of it is a step of one pass over
\* the records in their order.
C22_BatchSizeIrrelevant ==
  [][(program \in {"import-data", "module"}) => InOrderStep]_vars

\* C22 witness: processRecords has returned for records in batches of fewer,
\* one of which threw: the output is what one pass pushes
C22_Witness ==
  /\ program = "module" /\ pc = "uploadToDatabase"
  /\ batchSize > 1 /\ batchSize < Len(records)
  /\ Len(processedRecords) = Len(records) - 1
  /\ importStats.errors = 1
  /\ processedRecords = SecuredInOrder(records)

(***************************************************************************)
(* importStats over the calls of importData on one instance.               *)
(***************************************************************************)
\* C29: after every completed importData run, also a repeated one on the same
\* instance, importStats.processedRecords is the number of records processRecords
\* put out in that run, and is at most importStats.totalRecords
C29_ProcessedCount ==
  (program = "library" /\ pc = "main_result" /\ result.status = "success") =>
    /\ importStats.processedRecords = Len(processedRecords)
    /\ importStats.processedRecords <= importStats.totalRecords

(***************************************************************************)
(* Claims about the connection of the portal.                              *)
(***************************************************************************)
\* C23: after any sequence of connectToDatabase attempts isConnected is true
\* only if the client held in this.supabase passed its connection test.
C23_ConnectedClientPassed ==
  program = "portal" => (isConnected => supabase.tested = "passed")

\* C24: after disconnect() has returned the connector stays disconnected
\* (connection.connected is false and listCache is empty) until a later connect()
\* call is made, also when a connect() or getListMetadata() call started before
\* the disconnect completes afterwards.
C24_StaysDisconnected ==
  (program = "sharepoint" /\ disconnected) => (~connection.connected /\ listCache = {})

(***************************************************************************)
(* connectToDatabase and local storage.                                    *)
(***************************************************************************)
\* the step is a connectToDatabase that was rejected for a missing field, or
\* whose connection test failed
ConnectRejected ==
  message' = "Please fill in all required fields" /\ message' # message

ConnectFailed ==
  /\ message' = "Failed to connect to database"
  /\ message' # message \/ supabase' # supabase

\* the values of the credential items of local storage
StoredCredentials(storage) == {storage.credentials[k] : k \in 1..Len(storage.credentials)}

CredentialsStep ==
  /\ localStorage'.credentials # localStorage.credentials =>
       /\ supabase'.tested = "passed"
       /\ localStorage'.credentials =
            <<trim(inputs.url), trim(inputs.email), trim(inputs.department)>>
  /\ trim(inputs.key) \notin StoredCredentials(localStorage')
  /\ (ConnectRejected \/ ConnectFailed) => localStorage' = localStorage

\* C27: connectToDatabase writes the URL, the e-mail and the department to local
\* storage only after its connection test passed and never writes the API key;
\* an attempt rejected for a missing field or failing its test leaves local
\* storage unchanged
C27_CredentialsOnlyAfterTest == [][(program = "portal") => CredentialsStep]_vars

\* C27 witness: a connection passed its test and stored the three values, and a
\* later attempt failed its test with local storage still holding them
C27_Witness ==
  /\ program = "portal" /\ supabase.tested = "failed"
  /\ message = "Failed to connect to database"
  /\ localStorage.credentials = <<trim(inputs.url), trim(inputs.email), trim(inputs.department)>>
  /\ trim(inputs.key) # <<>> /\ trim(inputs.key) \notin StoredCredentials(localStorage)
====
